---- MODULE Spec2Model ----
(***************************************************************************)
(* Model of the Stereolabs link checker: the on-demand handler             *)
(* (api/check-links.js), the scheduled handler (api/cron.js), and          *)
(* LinkChecker.scanWebsite / scanSinglePage / checkLinksInBatch /          *)
(* checkSingleLink with utils.processConcurrent.                           *)
(*                                                                         *)
(* JavaScript runs each continuation to completion, so one action is one   *)
(* segment of code between two awaits: the arrival of a request, the       *)
(* settlement of an HTTP request, or the firing of a timer.                *)
(***************************************************************************)
EXTENDS Integers, Sequences, FiniteSets, TLC

(* ------------------------------ bounds -------------------------------- *)

\* number of distinct page URLs a sitemap can list
NPages == 2

\* number of checkable links on the largest page
MaxLinks == 3

(* --------------------- values set by the program ---------------------- *)

\* LinkChecker.js:13  parseInt(process.env.MAX_CONCURRENT_CHECKS) || 10
DefaultMaxConcurrent == 10

\* api/cron.js:29  maxPagesLimit
CronMaxPagesLimit == 50

\* cron.js:30: the worker count the cron handler passes to new LinkChecker
CronMaxConcurrent == 5

(* ------------------------------ helpers ------------------------------- *)

Null == "null"

Range(s) == {s[i] : i \in 1..Len(s)}

Min(a, b) == IF a < b THEN a ELSE b

Max(a, b) == IF a < b THEN b ELSE a

\* Array.prototype.slice(from, to) with 0-based, end-exclusive indices, from
\* not negative; a negative to counts from the end
Slice(s, from, to) ==
  SubSeq(s, from + 1, IF to < 0 THEN Max(Len(s) + to, 0) ELSE Min(to, Len(s)))

RECURSIVE FilterSeq(_, _)
\* Array.prototype.filter, Test(x) being membership of x in the set keep
FilterSeq(s, keep) ==
  IF s = <<>> THEN <<>>
  ELSE (IF Head(s) \in keep THEN <<Head(s)>> ELSE <<>>)
         \o FilterSeq(Tail(s), keep)

(* --------------------------- the audited site -------------------------- *)

PageUrls == 1..NPages

\* an ExtractedLink: target url, whether the resolved url contains '#',
\* and the page it was found on
Link(p, k, hash) == [url |-> 10 * p + k, hasHash |-> hash, foundOn |-> p]

\* The link lists extractLinks can return for page p (already deduplicated
\* by url).  Page 1 carries up to MaxLinks plain links; the other pages
\* carry a fragment link followed by one plain link, or nothing.
PageContents(p) ==
  IF p = 1
  THEN {[k \in 1..n |-> Link(p, k, FALSE)] : n \in 0..MaxLinks}
  ELSE {<<>>, <<Link(p, 0, TRUE), Link(p, 1, FALSE)>>}

AllContents == UNION {PageContents(p) : p \in PageUrls}

\* what axios.get(pageUrl) can do: a response with a status, or a rejection
PageFetchFailures == {[kind |-> "response", status |-> 500],
                      [kind |-> "failure", status |-> 0]}

\* what axios.get(link.url) can do.  kind "response": the promise fulfils
\* with that status.  kind "failure": it rejects with an error carrying
\* error.code and, when status # 0, error.response.status.  kind "throw":
\* it rejects with a value that has no properties, so that reading
\* error.code in the catch block throws and checkSingleLink itself rejects.
Outcomes ==
  {[kind |-> "response", status |-> 200, code |-> Null],
   [kind |-> "response", status |-> 404, code |-> Null],
   [kind |-> "response", status |-> 500, code |-> Null],
   [kind |-> "failure", status |-> 0, code |-> "ECONNABORTED"],
   [kind |-> "failure", status |-> 0, code |-> "ETIMEDOUT"],
   [kind |-> "failure", status |-> 0, code |-> "ENOTFOUND"],
   [kind |-> "failure", status |-> 404, code |-> "ERR_BAD_REQUEST"],
   [kind |-> "failure", status |-> 500, code |-> "ERR_BAD_RESPONSE"],
   [kind |-> "throw", status |-> 0, code |-> Null]}

\* values of process.env.MAX_CONCURRENT_CHECKS after parseInt; 0 stands for
\* an unset or non-numeric value (parseInt gives NaN, which is falsy like 0)
MaxConcurrentEnv == {0, 2}

(* ------------------------------ state --------------------------------- *)

VARIABLES
  webhook,        \* whether process.env.SLACK_WEBHOOK_URL is set
  trigger,        \* who started the run: "none", "direct", "ondemand", "cron",
                  \* or "preflight" for an OPTIONS request, which starts none
  query,          \* request.query of the on-demand handler
  method,         \* request.method of the on-demand handler
  notifySlack,    \* check-links.js:29
  hpc,            \* position of the handler
  originalUrls,   \* rawUrls.length
  cleanUrls,      \* cleaner.process(rawUrls)
  sinkCalls,      \* 404 notifications posted to the Slack webhook
  post,           \* how the POST of notifyErrors404 ended: "none",
                  \* "pending", "sent", "failed"
  techCalls,      \* technical-error notifications posted to the webhook
  response,       \* what the handler answered
  checkCalls,     \* direct calls of checkSingleLink: link, outcome, promise
  auth,           \* cron.js:16-17: Authorization header and CRON_SECRET
  cleanCalls,     \* direct calls of cleanSingleUrl: url, result
  processCalls,   \* direct calls of SitemapCleaner.process: urls, result
  web,            \* what each sitemap URL serves
  fstack,         \* call stack of fetchSitemap, innermost call last
  fout,           \* how the outermost fetchSitemap call ended
  fetches,        \* sitemap URLs requested by fetchSitemap, in order
  extractCalls,   \* direct calls of extractLinks: page, hrefs, links
  server,         \* server.js: the registration serving the request,
                  \* lastScanResult, how the last GET / ended
  spc,            \* position of LinkChecker.scanWebsite
  urls,           \* argument of scanWebsite
  pageIndex,      \* LinkChecker.js:239
  maxConcurrent,  \* this.maxConcurrent
  linksToCheck,   \* items of the running processConcurrent call
  pageLinks,      \* links extracted from the page being scanned
  batchI,         \* loop variable i of processConcurrent
  inflight,       \* promise of each item of processConcurrent, by index
  pcResults,      \* results array of processConcurrent
  checkedLinks,   \* what checkLinksInBatch has returned to scanSinglePage
  pageResult,     \* what scanSinglePage has returned to its caller
  entry,          \* the method of the LinkChecker its user has called
  results,        \* results object of scanWebsite
  stats,          \* this.stats
  scans,          \* calls of scanWebsite, or of scanSinglePage and
                  \* checkLinksInBatch, on the LinkChecker so far
  overlap,        \* the locals of a scanWebsite call made on the LinkChecker
                  \* while another of its scans is running
  pageSleeps,     \* sleep(500) calls of the running scanWebsite
  pcLog           \* processConcurrent calls of the running scanWebsite:
                  \* items, concurrency, batches, sleeps, GETs issued

kvars == <<cleanCalls, processCalls, web, fstack, fout, fetches,
           extractCalls>>
lvars == <<kvars, server>>

hvars == <<webhook, trigger, query, method, notifySlack, hpc, originalUrls, cleanUrls,
           sinkCalls, post, techCalls, response, checkCalls, auth, lvars>>
cvars == <<scans, overlap>>
tvars == <<cvars, pageSleeps, pcLog>>
rvars == <<checkedLinks, pageResult, entry>>
svars == <<spc, urls, pageIndex, maxConcurrent, linksToCheck, pageLinks,
           batchI, inflight, pcResults, rvars, results, stats, tvars>>
vars == <<hvars, svars>>

(* ------------------------- LinkChecker: data -------------------------- *)

\* LinkChecker.resetStats (startTime is not modelled)
ZeroStats == [pagesScanned |-> 0, linksChecked |-> 0, errors404 |-> 0,
              errorsOther |-> 0, timeouts |-> 0]

\* results.stats before scanWebsite has set it
NoStats == [pagesScanned |-> -1, linksChecked |-> -1, errors404 |-> -1,
            errorsOther |-> -1, timeouts |-> -1]

\* the results object scanWebsite builds at LinkChecker.js:226-236
NewResults(us) ==
  [totalPages |-> Len(us),
   pages |-> <<>>,
   summary |-> [totalLinks |-> 0, errors404 |-> <<>>,
                errorsOther |-> <<>>, timeouts |-> <<>>],
   stats |-> NoStats]

\* { ...link, status, statusCode }
Checked(link, status, statusCode) ==
  [url |-> link.url, hasHash |-> link.hasHash, foundOn |-> link.foundOn,
   status |-> status, statusCode |-> statusCode]

\* the rejection reason of a promise, which carries no link fields
NoValue == [url |-> 0, hasHash |-> FALSE, foundOn |-> 0,
            status |-> "rejected", statusCode |-> 0]

\* the promise of a link before its batch is launched, while its GET is
\* outstanding, and after its batch has been pushed to results
Unstarted == [state |-> "unstarted", value |-> NoValue]
Pending == [state |-> "pending", value |-> NoValue]
Joined == [state |-> "joined", value |-> NoValue]

(* ------------------- LinkChecker.checkSingleLink ---------------------- *)

TimeoutCodes == {"ECONNABORTED", "ETIMEDOUT"}

\* ClassifyStatus without the test for 404
ClassifyStatus_No404Test(status, dflt) ==
  IF status >= 400 THEN "warning" ELSE dflt

\* classification of an HTTP status, LinkChecker.js:160-167 and 194-200;
\* dflt is the value status holds before the tests ('ok' or 'error')
ClassifyStatus(status, dflt) ==
  IF status = 404 THEN "broken"
  ELSE IF status >= 400 THEN "warning"
  ELSE dflt

\* the status field of the value checkSingleLink returns
LinkStatus(o) ==
  IF o.kind = "response" THEN ClassifyStatus(o.status, "ok")
  ELSE IF o.code \in TimeoutCodes THEN "timeout"
  ELSE IF o.status # 0 THEN ClassifyStatus(o.status, "error")
  ELSE "error"

\* the statusCode field of the value checkSingleLink returns
LinkStatusCode(o) ==
  IF o.kind = "response" THEN o.status
  ELSE IF o.code \in TimeoutCodes THEN 0
  ELSE o.status

\* StatsAfterCheck with the worker also counting the link as checked
StatsAfterCheck_CountsLink(st, o) ==
  LET st1 == [st EXCEPT !.linksChecked = @ + 1]
  IN IF o.kind = "throw" THEN st1
     ELSE IF o.kind = "failure" /\ o.code \in TimeoutCodes
       THEN [st1 EXCEPT !.timeouts = @ + 1]
     ELSE IF o.kind = "failure" /\ o.status = 0
       THEN [st1 EXCEPT !.errorsOther = @ + 1]
     ELSE IF o.status = 404 THEN [st1 EXCEPT !.errors404 = @ + 1]
     ELSE IF o.status >= 400 THEN [st1 EXCEPT !.errorsOther = @ + 1]
     ELSE st1

\* this.stats after checkSingleLink has handled outcome o
StatsAfterCheck(st, o) ==
  IF o.kind = "throw" THEN st
  ELSE IF o.kind = "failure" /\ o.code \in TimeoutCodes
    THEN [st EXCEPT !.timeouts = @ + 1]
  ELSE IF o.kind = "failure" /\ o.status = 0
    THEN [st EXCEPT !.errorsOther = @ + 1]
  ELSE IF o.status = 404 THEN [st EXCEPT !.errors404 = @ + 1]
  ELSE IF o.status >= 400 THEN [st EXCEPT !.errorsOther = @ + 1]
  ELSE st

\* the settled promise of checkSingleLink(link) when axios.get does o
CheckSingleLink(link, o) ==
  IF o.kind = "throw"
  THEN [state |-> "rejected", value |-> NoValue]
  ELSE [state |-> "fulfilled",
        value |-> Checked(link, LinkStatus(o), LinkStatusCode(o))]

(* ---------------------- utils.processConcurrent ----------------------- *)

\* Batch with a slice that is one item too long
Batch_OneTooMany(items, i, c) == Slice(items, i, i + c + 1)

\* items.slice(i, i + concurrency)
Batch(items, i, c) == Slice(items, i, i + c)

\* the positions in items of the batch starting at i
BatchIndices(items, i, c) == (i + 1)..(i + Len(Batch(items, i, c)))

\* batch.map(item => processor(item)), utils.js:86: every link of the
\* batch gets its GET issued at once
Launch(promises, items, i, c) ==
  [k \in 1..Len(items) |->
     IF k \in BatchIndices(items, i, c) THEN Pending
     ELSE IF k \in DOMAIN promises THEN promises[k] ELSE Unstarted]

\* BatchSettled resolving as soon as one promise of the batch has settled
BatchSettled_Any(promises, items, i, c) ==
  \E k \in BatchIndices(items, i, c) :
     promises[k].state \in {"fulfilled", "rejected"}

\* await Promise.allSettled(...), utils.js:85: every promise of the batch
\* has fulfilled or rejected
BatchSettled(promises, items, i, c) ==
  \A k \in BatchIndices(items, i, c) :
     promises[k].state \in {"fulfilled", "rejected"}

\* BatchEntries taking the item from items instead of from the batch
BatchEntries_NoOffset(items, i, c, promises) ==
  [k \in 1..Len(Batch(items, i, c)) |->
     [item |-> items[k],
      success |-> promises[i + k].state = "fulfilled",
      result |-> promises[i + k].value]]

\* the entries pushed for the settled batch starting at i, utils.js:89-93:
\* Promise.allSettled keeps the order of the promises, so the k-th entry
\* belongs to the k-th item of the batch whatever the settlement order
BatchEntries(items, i, c, promises) ==
  [k \in 1..Len(Batch(items, i, c)) |->
     [item |-> Batch(items, i, c)[k],
      success |-> promises[i + k].state = "fulfilled",
      result |-> promises[i + k].value]]

\* the promises after the batch starting at i has been pushed
Release(promises, items, i, c) ==
  [k \in DOMAIN promises |->
     IF k \in BatchIndices(items, i, c) /\ promises[k].state # "pending"
     THEN Joined ELSE promises[k]]

\* the promises left when processConcurrent has returned
Outstanding(promises) ==
  IF \A k \in DOMAIN promises : promises[k].state # "pending"
  THEN <<>> ELSE promises

\* a test that sends every batch into the pause
MoreBatches_AfterEach(items, i, c) == i < Len(items)

\* the test deciding that another batch follows, utils.js:96
MoreBatches(items, i, c) == i + c < Len(items)

\* the GETs issued by batch.map(item => processor(item)) for the batch
\* starting at i: checkSingleLink makes one axios.get for its link
Issued(items, i, c) == Batch(items, i, c)

\* processConcurrent has been called on the links of a page and has
\* launched its first batch
Called(page, items, c) ==
  [page |-> page, items |-> items, concurrency |-> c, batches |-> 1,
   sleeps |-> 0, gets |-> Issued(items, 0, c), returned |-> FALSE]

\* the call has reached sleep(1000)
Slept(call) == [call EXCEPT !.sleeps = @ + 1]

\* the call has launched the batch starting at i
Launched(call, i) ==
  [call EXCEPT !.batches = @ + 1,
               !.gets = @ \o Issued(call.items, i, call.concurrency)]

\* the call has returned its results
Returned(call) == [call EXCEPT !.returned = TRUE]

Last(log) == log[Len(log)]

\* the log with its last entry, the running call, replaced
Running(log, call) == [log EXCEPT ![Len(log)] = call]

(* -------------------- LinkChecker.checkLinksInBatch ------------------- *)

\* LinkChecker.js:128-142
CheckedLinks(entries) ==
  [k \in 1..Len(entries) |->
     IF entries[k].success THEN entries[k].result
     ELSE Checked(entries[k].item, "error", 0)]

(* ---------------------- LinkChecker.scanSinglePage -------------------- *)

\* the filter of LinkChecker.js:69-74; extracted links always have an
\* http(s) url and never a mailto:/tel: href (resolveUrl drops those)
LinksToCheck(links) == FilterSeq(links, {l \in Range(links) : ~l.hasHash})

InaccessiblePage(u, status) ==
  [pageUrl |-> u, accessible |-> FALSE, status |-> status,
   links |-> <<>>, checkedLinks |-> <<>>]

AccessiblePage(u, links, checked) ==
  [pageUrl |-> u, accessible |-> TRUE, status |-> 200,
   links |-> links, checkedLinks |-> checked]

\* no page result is waiting for the caller of scanSinglePage
NoPage ==
  [pageUrl |-> 0, accessible |-> FALSE, status |-> 0,
   links |-> <<>>, checkedLinks |-> <<>>]

(* ----------------------- LinkChecker.scanWebsite ---------------------- *)

\* Is404 taking every status of 400 and above for a 404
Is404_AnyHttpError(link) == link.statusCode >= 400

\* the test of LinkChecker.js:252
Is404(link) == link.status = "broken" /\ link.statusCode = 404

\* the record pushed at LinkChecker.js:253-259
Error404Record(link) == [url |-> link.url, foundOn |-> link.foundOn]

RECURSIVE FoldLinks(_, _)
\* the forEach of LinkChecker.js:249-261 applied to summary
FoldLinks(summary, checked) ==
  IF checked = <<>> THEN summary
  ELSE LET l == Head(checked)
           s1 == [summary EXCEPT !.totalLinks = @ + 1]
           s2 == IF Is404(l)
                 THEN [s1 EXCEPT !.errors404 = Append(@, Error404Record(l))]
                 ELSE s1
       IN FoldLinks(s2, Tail(checked))

\* RecordPage keeping only the pages that could be fetched
RecordPage_SkipFailed(res, page) ==
  IF page.accessible
  THEN [res EXCEPT !.pages = Append(@, page),
                   !.summary = FoldLinks(@, page.checkedLinks)]
  ELSE res

\* LinkChecker.js:245-262
RecordPage(res, page) ==
  [res EXCEPT !.pages = Append(@, page),
              !.summary = FoldLinks(@, page.checkedLinks)]

\* the test of LinkChecker.js:265
MorePages(idx, us) == idx < Len(us)

\* results.stats = { ...this.stats }, LinkChecker.js:273
Finalize(res, st) == [res EXCEPT !.stats = st]

\* the lists scanWebsite is called with: the first n page URLs in ascending
\* order, as the cleaner returns them, or in descending order
UrlLists ==
  {[i \in 1..n |-> i] : n \in 0..NPages}
    \cup {[i \in 1..n |-> n + 1 - i] : n \in 0..NPages}

(* ------------------------------ Init ---------------------------------- *)

NoQuery == [notify |-> "absent", maxPages |-> "absent"]

\* the answers of the handlers: status code, the fields success and
\* notification.sent of the body and its 404 list results.errors404, with
\* FALSE and <<>> for a field the body does not have
NoResponse ==
  [code |-> 0, success |-> FALSE, sent |-> FALSE, errors404 |-> <<>>]

\* the locals of a scanWebsite call that has not been made
NoCall ==
  [spc |-> "idle", urls |-> <<>>, pageIndex |-> 0, linksToCheck |-> <<>>,
   pageLinks |-> <<>>, batchI |-> 0, inflight |-> <<>>, pcResults |-> <<>>,
   checkedLinks |-> <<>>, pageResult |-> NoPage,
   results |-> NewResults(<<>>)]

NoAuth == [header |-> "undefined", secret |-> "undefined"]

(* ----------------------------- server.js ------------------------------ *)

\* the routes of the Express application in the order of their
\* registration (server.js:18, 36, 53, 75): whether the adapter's json
\* assigns lastScanResult and whether the route handler calls next()
Registrations ==
  <<[name |-> "first", path |-> "/api/check-links", stores |-> FALSE,
     next |-> FALSE],
    [name |-> "test-slack", path |-> "/api/test-slack", stores |-> FALSE,
     next |-> FALSE],
    [name |-> "second", path |-> "/api/check-links", stores |-> TRUE,
     next |-> FALSE],
    [name |-> "home", path |-> "/", stores |-> FALSE, next |-> FALSE]>>

\* the registrations Express runs for a path: they are tried in the order
\* of registration, and one is reached only when every matching one before
\* it has called next()
Runs(path) ==
  {i \in DOMAIN Registrations :
     /\ Registrations[i].path = path
     /\ \A j \in 1..(i - 1) :
          Registrations[j].path = path => Registrations[j].next}

\* the registration whose adapter the handler is given
Serving(path) ==
  Registrations[CHOOSE i \in Runs(path) : \A j \in Runs(path) : i <= j].name

\* server.js:14; no page sent yet.  The handler's answers are records with
\* a positive code, NoResponse stands for null
NoServer ==
  [registration |-> "none", lastScanResult |-> NoResponse, home |-> "none"]

\* response.json(data) of the adapter the handler was given: server.js:29
\* for the first registration, server.js:67-70 for the second, neither on
\* the hosting platform
Json(srv, data) ==
  IF \E i \in DOMAIN Registrations :
        Registrations[i].name = srv.registration /\ Registrations[i].stores
  THEN [srv EXCEPT !.lastScanResult = data]
  ELSE srv

\* whether an answer of the handler has the fields scan and results: the
\* answer of check-links.js:80-103 has them, the answer of its catch block
\* (check-links.js:126-131) has neither
HasScan(data) == data.success

\* server.js:76-89: what the handler of GET / does with lastScanResult.  A
\* stored answer without a scan field makes result.scan.scannedUrls throw
\* before res.send is reached
HomePage(result) ==
  IF result = NoResponse THEN "no-scan"
  ELSE IF HasScan(result) THEN "summary"
  ELSE "TypeError"

NoFetch == [state |-> "none", urls |-> <<>>]

\* nothing has been called yet
Idle ==
  /\ trigger = "none"
  /\ query = NoQuery
  /\ method = "none"
  /\ notifySlack = FALSE
  /\ hpc = "idle"
  /\ originalUrls = 0
  /\ cleanUrls = <<>>
  /\ sinkCalls = 0
  /\ post = "none"
  /\ techCalls = 0
  /\ response = NoResponse
  /\ checkCalls = <<>>
  /\ spc = "idle"
  /\ urls = <<>>
  /\ pageIndex = 0
  /\ maxConcurrent = DefaultMaxConcurrent
  /\ linksToCheck = <<>>
  /\ pageLinks = <<>>
  /\ batchI = 0
  /\ inflight = <<>>
  /\ pcResults = <<>>
  /\ checkedLinks = <<>>
  /\ pageResult = NoPage
  /\ entry = "none"
  /\ results = NewResults(<<>>)
  /\ stats = ZeroStats
  /\ scans = 0
  /\ overlap = NoCall
  /\ pageSleeps = 0
  /\ pcLog = <<>>
  /\ auth = NoAuth
  /\ cleanCalls = <<>>
  /\ processCalls = <<>>
  /\ fstack = <<>>
  /\ fout = NoFetch
  /\ fetches = <<>>
  /\ extractCalls = <<>>
  /\ server = NoServer

Init ==
  /\ Idle
  /\ webhook \in BOOLEAN
  /\ web = <<>>

(* --------------------- actions of LinkChecker ------------------------- *)

\* a resetStats that leaves the counters as they are
ResetStats_Keep(st) == st

\* LinkChecker.resetStats
ResetStats(st) == ZeroStats

\* scanWebsite(us) up to its first await: resetStats, the results object,
\* and the GET of the first page; an empty list falls through the loop to
\* the finalisation
ScanWebsite(us) ==
  /\ stats' = ResetStats(stats)
  /\ entry' = "scanWebsite"
  /\ pageSleeps' = 0
  /\ pcLog' = <<>>
  /\ urls' = us
  /\ linksToCheck' = <<>>
  /\ pageLinks' = <<>>
  /\ batchI' = 0
  /\ inflight' = <<>>
  /\ pcResults' = <<>>
  /\ checkedLinks' = <<>>
  /\ pageResult' = NoPage
  /\ IF us = <<>>
     THEN /\ spc' = "done"
          /\ pageIndex' = 0
          /\ results' = Finalize(NewResults(us), stats')
     ELSE /\ spc' = "fetching-page"
          /\ pageIndex' = 1
          /\ results' = NewResults(us)

\* new LinkChecker() followed by scanWebsite(us): the constructor reads
\* the environment and ignores its argument
StartScan(us, env) ==
  /\ maxConcurrent' = (IF env = 0 THEN DefaultMaxConcurrent ELSE env)
  /\ scans' = 1
  /\ ScanWebsite(us)
  /\ UNCHANGED overlap

\* scanWebsite from the return of scanSinglePage to its next await or its
\* return, LinkChecker.js:244-277
AfterPage(page) ==
  IF MorePages(pageIndex, urls)
  THEN /\ spc' = "page-sleep"
       /\ pageSleeps' = pageSleeps + 1
       /\ results' = RecordPage(results, page)
  ELSE /\ spc' = "done"
       /\ pageSleeps' = pageSleeps
       /\ results' = Finalize(RecordPage(results, page), stats)

\* this.stats after LinkChecker.js:84-85
StatsAfterPage(st, checked) ==
  [st EXCEPT !.pagesScanned = @ + 1, !.linksChecked = @ + Len(checked)]

\* scanWebsite called directly by a user of the class
DirectCall(us, env) ==
  /\ trigger = "none"
  /\ trigger' = "direct"
  /\ StartScan(us, env)
  /\ UNCHANGED <<lvars, auth, checkCalls, webhook, query, method, notifySlack, hpc,
                 originalUrls, cleanUrls, sinkCalls, post, techCalls, response>>

\* PageFetchFails ending the scan at the page that could not be fetched
PageFetchFails_Abort(f) ==
  /\ spc = "fetching-page"
  /\ spc' = "done"
  /\ results' = Finalize(RecordPage(results,
                            InaccessiblePage(urls[pageIndex], f.status)), stats)
  /\ UNCHANGED <<hvars, urls, pageIndex, maxConcurrent, linksToCheck,
                 pageLinks, batchI, inflight, pcResults, rvars, stats, tvars>>

\* the GET of the page answers with a status other than 200 or rejects:
\* scanSinglePage returns the page as inaccessible (LinkChecker.js:53-63,
\* 97-108)
PageFetchFails(f) ==
  /\ spc = "fetching-page"
  /\ spc' = "page-returned"
  /\ pageResult' = InaccessiblePage(urls[pageIndex], f.status)
  /\ UNCHANGED <<hvars, urls, pageIndex, maxConcurrent, linksToCheck,
                 pageLinks, batchI, inflight, pcResults, checkedLinks, entry,
                 results, stats, tvars>>

\* the GET of the page answers 200 with a document holding links:
\* scanSinglePage extracts and filters them and calls checkLinksInBatch,
\* which returns [] for an empty list and otherwise has processConcurrent
\* launch the first batch (LinkChecker.js:65-79, 116-125)
PageFetchOk(links) ==
  /\ spc = "fetching-page"
  /\ links \in PageContents(urls[pageIndex])
  /\ pageLinks' = links
  /\ linksToCheck' = LinksToCheck(links)
  /\ IF LinksToCheck(links) = <<>>
     THEN /\ spc' = "links-checked"
          /\ checkedLinks' = <<>>
          /\ UNCHANGED <<batchI, inflight, pcResults, pcLog>>
     ELSE /\ spc' = "verifying"
          /\ batchI' = 0
          /\ inflight' = Launch(<<>>, LinksToCheck(links), 0, maxConcurrent)
          /\ pcResults' = <<>>
          /\ pcLog' = Append(pcLog, Called(pageIndex, LinksToCheck(links),
                                           maxConcurrent))
          /\ UNCHANGED checkedLinks
  /\ UNCHANGED <<hvars, urls, pageIndex, maxConcurrent, pageResult, entry,
                 results, stats, cvars, pageSleeps>>

\* the GET of the k-th link of the running batch settles with outcome o and
\* the continuation of checkSingleLink runs
LinkSettles(k, o) ==
  /\ spc = "verifying"
  /\ inflight[k].state = "pending"
  /\ inflight' = [inflight EXCEPT ![k] = CheckSingleLink(linksToCheck[k], o)]
  /\ stats' = StatsAfterCheck(stats, o)
  /\ UNCHANGED <<hvars, spc, urls, pageIndex, maxConcurrent, linksToCheck,
                 pageLinks, batchI, pcResults, rvars, results, tvars>>

\* a next batch that starts on the last item of the batch before
NextBatchStart_Overlap(i, c) == i + c - 1

\* the first index of the batch after the one starting at i, utils.js:83
NextBatchStart(i, c) == i + c

\* Promise.allSettled resolves: the batch is pushed to results, and either
\* the pause before the next batch starts or processConcurrent returns
\* (utils.js:85-101)
BatchJoin ==
  /\ spc = "verifying"
  /\ BatchSettled(inflight, linksToCheck, batchI, maxConcurrent)
  /\ pcResults' = pcResults
                    \o BatchEntries(linksToCheck, batchI, maxConcurrent,
                                    inflight)
  /\ IF MoreBatches(linksToCheck, batchI, maxConcurrent)
     THEN /\ spc' = "batch-sleep"
          /\ inflight' = Release(inflight, linksToCheck, batchI,
                                 maxConcurrent)
          /\ pcLog' = Running(pcLog, Slept(Last(pcLog)))
     ELSE /\ spc' = "batch-returned"
          /\ inflight' = Outstanding(Release(inflight, linksToCheck,
                                             batchI, maxConcurrent))
          /\ pcLog' = Running(pcLog, Returned(Last(pcLog)))
  /\ UNCHANGED <<hvars, urls, pageIndex, maxConcurrent, linksToCheck,
                 pageLinks, batchI, rvars, results, stats, cvars, pageSleeps>>

\* checkLinksInBatch resumes with the results of processConcurrent, maps
\* them to checked links and returns (LinkChecker.js:121-144)
CheckLinksInBatchResumes ==
  /\ spc = "batch-returned"
  /\ spc' = "links-checked"
  /\ checkedLinks' = CheckedLinks(pcResults)
  /\ pcResults' = <<>>
  /\ UNCHANGED <<hvars, urls, pageIndex, maxConcurrent, linksToCheck,
                 pageLinks, batchI, inflight, pageResult, entry, results,
                 stats, tvars>>

\* scanSinglePage resumes with the checked links, counts the page and its
\* links in this.stats and returns the page (LinkChecker.js:79-95)
ScanSinglePageResumes ==
  /\ spc = "links-checked"
  /\ entry # "checkLinksInBatch"
  /\ spc' = "page-returned"
  /\ stats' = StatsAfterPage(stats, checkedLinks)
  /\ pageResult' = AccessiblePage(urls[pageIndex], pageLinks, checkedLinks)
  /\ checkedLinks' = <<>>
  /\ linksToCheck' = <<>>
  /\ pageLinks' = <<>>
  /\ batchI' = 0
  /\ UNCHANGED <<hvars, urls, pageIndex, maxConcurrent, inflight, pcResults,
                 entry, results, tvars>>

\* scanWebsite resumes with the page scanSinglePage returned, records it
\* and either pauses before the next page or copies this.stats and returns
\* (LinkChecker.js:243-277)
ScanWebsiteResumes ==
  /\ spc = "page-returned"
  /\ entry = "scanWebsite"
  /\ AfterPage(pageResult)
  /\ pageResult' = NoPage
  /\ UNCHANGED <<hvars, urls, pageIndex, maxConcurrent, linksToCheck,
                 pageLinks, batchI, inflight, pcResults, checkedLinks, entry,
                 stats, cvars, pcLog>>

\* sleep(1000) between two batches ends and the next batch is launched
BatchSleepEnds ==
  /\ spc = "batch-sleep"
  /\ spc' = "verifying"
  /\ batchI' = NextBatchStart(batchI, maxConcurrent)
  /\ inflight' = Launch(inflight, linksToCheck, batchI', maxConcurrent)
  /\ pcLog' = Running(pcLog, Launched(Last(pcLog), batchI'))
  /\ UNCHANGED <<hvars, urls, pageIndex, maxConcurrent, linksToCheck,
                 pageLinks, pcResults, rvars, results, stats, cvars,
                 pageSleeps>>

\* sleep(500) between two pages ends and the next page is requested
PageSleepEnds ==
  /\ spc = "page-sleep"
  /\ spc' = "fetching-page"
  /\ pageIndex' = pageIndex + 1
  /\ UNCHANGED <<hvars, urls, maxConcurrent, linksToCheck, pageLinks, batchI,
                 inflight, pcResults, rvars, results, stats, tvars>>

(* ------------------------- SitemapCleaner ----------------------------- *)

\* the two files of the repository that define class SitemapCleaner
CleanerVersions == {"part_003", "part_004"}

\* this.excludedExtensions
excludedExtensions ==
  {".pdf", ".doc", ".docx", ".xls", ".xlsx", ".ppt", ".pptx", ".txt", ".rtf",
   ".odt", ".ods", ".odp", ".jpg", ".jpeg", ".png", ".gif", ".svg", ".webp",
   ".ico", ".bmp", ".mp4", ".avi", ".mov", ".mp3", ".wav", ".zip", ".rar",
   ".tar", ".gz"}

\* this.excludedParams
excludedParams ==
  {"lang", "locale", "language", "l", "utm_source", "utm_medium",
   "utm_campaign", "utm_content", "utm_term", "gclid", "fbclid", "_ga",
   "_gac"}

\* excludedPaths of isExcludedPath
excludedPaths ==
  {"/admin", "/wp-admin", "/api/", "/assets/", "/static/", "/downloads/",
   "/files/", "/uploads/", "/media/", "/.well-known/", "/robots.txt",
   "/sitemap"}

\* this.languagePrefixes of part_003
languagePrefixes_Short ==
  <<"/en/", "/fr/", "/de/", "/es/", "/it/", "/ja/", "/zh/", "/ko/">>

\* this.languagePrefixes of part_004
languagePrefixes_Long ==
  <<"/en-fr/", "/en-us/", "/en-gb/", "/en-ca/", "/en-au/", "/en-in/",
    "/en-at/", "/en-be/", "/en-cy/", "/en-cz/", "/en-dk/", "/en-ee/",
    "/en-fi/", "/en-fr/", "/en-de/", "/en-gr/", "/en-hu/", "/en-ie/",
    "/en-it/", "/en-lt/", "/en-lu/", "/en-lv/", "/en-mt/", "/en-nl/",
    "/en-no/", "/en-pl/", "/en-pt/", "/en-ro/", "/en-sk/", "/en-si/",
    "/en-es/", "/en-se/", "/en-ch/", "/en-ar/", "/en-br/", "/en-cl/",
    "/en-mx/", "/en-pe/", "/en-uy/", "/en-cn/", "/en-hk/", "/en-id/",
    "/en-il/", "/en-jp/", "/en-kz/", "/en-kr/", "/en-my/", "/en-nz/",
    "/en-ph/", "/en-sg/", "/en-tw/", "/en-th/", "/en-tr/", "/en-vn/",
    "/en-eg/", "/en-il/", "/en-lb/", "/en-ma/", "/en-qa/", "/en-sa/",
    "/en-ae/", "/en-za/">>

languagePrefixes(version) ==
  IF version = "part_003" THEN languagePrefixes_Short
  ELSE languagePrefixes_Long

(* strings: String.prototype methods.  The URLs given to the program are
   written with the characters of Ascii; the strings the program makes of
   them also hold % and + *)

\* the characters the URLs given to the program are written with
Ascii ==
  " #&-./0123456789:=?ABCDEFGHIJKLMNOPQRSTUVWXYZ_abcdefghijklmnopqrstuvwxyz"

\* the characters of the strings the program handles, in the order of their
\* code units
CodeUnits ==
  " #%&+-./0123456789:=?ABCDEFGHIJKLMNOPQRSTUVWXYZ_abcdefghijklmnopqrstuvwxyz"

UpperCase == "ABCDEFGHIJKLMNOPQRSTUVWXYZ"
LowerCase == "abcdefghijklmnopqrstuvwxyz"
DecimalDigits == "0123456789"

CharAt(str, i) == SubSeq(str, i, i)

\* the characters of a string
Chars(str) == {CharAt(str, i) : i \in 1..Len(str)}

\* position of the one-character string c in alphabet, 0 when absent
IndexIn(alphabet, c) ==
  LET I == {i \in 1..Len(alphabet) : CharAt(alphabet, i) = c}
  IN IF I = {} THEN 0 ELSE CHOOSE i \in I : TRUE

StartsWith(str, prefix) ==
  Len(str) >= Len(prefix) /\ SubSeq(str, 1, Len(prefix)) = prefix

EndsWith(str, suffix) ==
  /\ Len(str) >= Len(suffix)
  /\ SubSeq(str, Len(str) - Len(suffix) + 1, Len(str)) = suffix

\* str.substring(from), from counted from 0
Substring(str, from) == SubSeq(str, from + 1, Len(str))

\* first position from which one of the characters of chars occurs in str,
\* Len(str) + 1 when there is none
FirstOf(str, chars) ==
  LET I == {i \in 1..Len(str) : CharAt(str, i) \in chars}
  IN IF I = {} THEN Len(str) + 1 ELSE CHOOSE i \in I : \A j \in I : i <= j

\* first position of str that holds another character than c, Len(str) + 1
\* when there is none
FirstNot(str, c) ==
  LET I == {i \in 1..Len(str) : CharAt(str, i) # c}
  IN IF I = {} THEN Len(str) + 1 ELSE CHOOSE i \in I : \A j \in I : i <= j

\* c.toLowerCase() for a one-character string
LowerChar(c) ==
  LET k == IndexIn(UpperCase, c)
  IN IF k = 0 THEN c ELSE CharAt(LowerCase, k)

RECURSIVE LowerString(_)

\* str.toLowerCase() character by character
LowerString(str) ==
  IF str = "" THEN ""
  ELSE LowerChar(CharAt(str, 1)) \o LowerString(Substring(str, 1))

\* str.toLowerCase()
ToLowerCase(str) ==
  IF Chars(str) \cap Chars(UpperCase) = {} THEN str ELSE LowerString(str)

\* str.toLowerCase().startsWith(prefix)
LowerStartsWith(str, prefix) ==
  /\ Len(str) >= Len(prefix)
  /\ \A i \in 1..Len(prefix) : LowerChar(CharAt(str, i)) = CharAt(prefix, i)

\* str.toLowerCase().endsWith(suffix)
LowerEndsWith(str, suffix) ==
  /\ Len(str) >= Len(suffix)
  /\ \A i \in 1..Len(suffix) :
        LowerChar(CharAt(str, Len(str) - Len(suffix) + i)) = CharAt(suffix, i)

\* str.trim(): what lies between the first and the last character that is
\* not a space
Trim(str) ==
  LET I == {i \in 1..Len(str) : CharAt(str, i) # " "}
  IN IF I = {} THEN ""
     ELSE SubSeq(str, CHOOSE i \in I : \A j \in I : i <= j,
                      CHOOSE i \in I : \A j \in I : j <= i)

\* a < b for two strings, the comparison Array.prototype.sort uses: the
\* code units at the first position where they differ decide, and a proper
\* prefix comes first
StringLess(a, b) ==
  LET D == {i \in 1..Min(Len(a), Len(b)) : CharAt(a, i) # CharAt(b, i)}
  IN IF D = {} THEN Len(a) < Len(b)
     ELSE LET k == CHOOSE i \in D : \A j \in D : i <= j
          IN IndexIn(CodeUnits, CharAt(a, k))
               < IndexIn(CodeUnits, CharAt(b, k))

RECURSIVE Split(_, _)

\* the part before the separator at position k, then the parts of the rest
SplitAt(str, sep, k) ==
  IF k > Len(str) THEN <<str>>
  ELSE <<SubSeq(str, 1, k - 1)>> \o Split(Substring(str, k), sep)

\* str.split(sep) for a one-character separator: empty parts are kept, and
\* a string without separator is its only part
Split(str, sep) == SplitAt(str, sep, FirstOf(str, {sep}))

RECURSIVE Join(_, _)

\* parts.join(sep)
Join(parts, sep) ==
  IF parts = <<>> THEN ""
  ELSE IF Len(parts) = 1 THEN parts[1]
  ELSE parts[1] \o sep \o Join(Tail(parts), sep)

\* str with every occurrence of the character c replaced by the string by
ReplaceAll(str, c, by) ==
  IF c \in Chars(str) THEN Join(Split(str, c), by) ELSE str

(* class URL, new URL(str) without base, as the URL Standard defines it,
   for the strings of characters of CodeUnits that have no scheme or whose
   scheme is http, https, ftp, ws or wss, in any case, and whose host is
   written with letters, digits, '-' and '.', has no label that begins with
   xn-- and does not end in a number (an IPv4 address); in such strings a %
   comes from the program and is followed by one of PercentCodes.  URLs of
   other schemes are not part of the model *)

UrlSchemes == {"http://", "https://"}

\* the scheme of an absolute http or https URL as written by the site
SchemeOf(str) ==
  IF StartsWith(str, "https://") THEN "https://"
  ELSE IF StartsWith(str, "http://") THEN "http://"
  ELSE ""

\* the special schemes with a host, and the port that is not written
SpecialSchemes == {"http", "https", "ftp", "ws", "wss"}
DefaultPort ==
  [s \in SpecialSchemes |->
     IF s \in {"http", "ws"} THEN "80"
     ELSE IF s \in {"https", "wss"} THEN "443" ELSE "21"]

\* what a scheme is written with after its first letter
SchemeChars ==
  Chars(UpperCase) \cup Chars(LowerCase) \cup Chars(DecimalDigits)
    \cup {"+", "-", "."}

\* scheme start state and scheme state: position of the ':' that ends the
\* scheme, 0 when the string does not begin with a scheme
SchemeEnd(str) ==
  IF str = "" \/ CharAt(str, 1) \notin Chars(UpperCase) \cup Chars(LowerCase)
  THEN 0
  ELSE IF /\ FirstOf(str, {":"}) <= Len(str)
          /\ \A i \in 2..(FirstOf(str, {":"}) - 1) :
                CharAt(str, i) \in SchemeChars
       THEN FirstOf(str, {":"})
       ELSE 0

\* the special scheme the k - 1 characters before the ':' spell, "" when
\* they spell none
SchemeName(str, k) ==
  LET S == {s \in SpecialSchemes : Len(s) = k - 1 /\ LowerStartsWith(str, s)}
  IN IF S = {} THEN "" ELSE CHOOSE s \in S : TRUE

\* special authority slashes and special authority ignore slashes states:
\* what follows the ':' without the slashes it begins with, however many
AfterSlashes(str, k) ==
  Substring(Substring(str, k), FirstNot(Substring(str, k), "/") - 1)

\* authority state: what stands before the first '/', '?' or '#'
Authority(rest) == SubSeq(rest, 1, FirstOf(rest, {"/", "?", "#"}) - 1)

\* what follows the authority
AfterAuthority(rest) == Substring(rest, FirstOf(rest, {"/", "?", "#"}) - 1)

\* host state: the host is what stands before the first ':'
HostOf(authority) == SubSeq(authority, 1, FirstOf(authority, {":"}) - 1)

\* port state: the digits after that ':', "" without ':'
PortOf(authority) == Substring(authority, FirstOf(authority, {":"}))

\* the digits of a port without the zeros in front
PortDigits(port) == Substring(port, FirstNot(port, "0") - 1)

\* the port state accepts digits only, and a number up to 65535
ValidPort(port) ==
  /\ Chars(port) \subseteq Chars(DecimalDigits)
  /\ \/ Len(PortDigits(port)) < 5
     \/ Len(PortDigits(port)) = 5 /\ ~StringLess("65535", PortDigits(port))

\* the host parser rejects the empty host and the space
ValidHost(host) == host # "" /\ " " \notin Chars(host)

\* the port as the serializer writes it: nothing for no port and for the
\* default port of the scheme
PortText(scheme, port) ==
  IF port = "" \/ PortDigits(port) = DefaultPort[scheme] THEN ""
  ELSE IF PortDigits(port) = "" THEN ":0"
  ELSE ":" \o PortDigits(port)

\* new URL(str) does not throw, str without blanks around it
ParseableStripped(str) ==
  /\ SchemeEnd(str) > 0
  /\ SchemeName(str, SchemeEnd(str)) # ""
  /\ ValidHost(HostOf(Authority(AfterSlashes(str, SchemeEnd(str)))))
  /\ ValidPort(PortOf(Authority(AfterSlashes(str, SchemeEnd(str)))))

\* new URL(str) does not throw; the parser removes the blanks around str
Parseable(str) == ParseableStripped(Trim(str))

\* path state, one segment: '..' removes the last segment, '.' adds none,
\* and either leaves an empty segment when it is the last
PathStep(seg, last, path) ==
  IF seg = ".."
  THEN SubSeq(path, 1, Len(path) - 1) \o (IF last THEN <<"">> ELSE <<>>)
  ELSE IF seg = "." THEN path \o (IF last THEN <<"">> ELSE <<>>)
  ELSE Append(path, seg)

RECURSIVE RemoveDots(_, _)

\* path state over the segments still to read
RemoveDots(segs, path) ==
  IF segs = <<>> THEN path
  ELSE RemoveDots(Tail(segs), PathStep(Head(segs), Len(segs) = 1, path))

\* the pathname of a special URL whose path is written text, which is
\* empty or begins with '/': dot segments removed, the space encoded
Pathname(text) ==
  IF text = "" THEN "/"
  ELSE IF Range(Split(Substring(text, 1), "/")) \cap {".", ".."} = {}
  THEN ReplaceAll(text, " ", "%20")
  ELSE ReplaceAll(
         "/" \o Join(RemoveDots(Split(Substring(text, 1), "/"), <<>>), "/"),
         " ", "%20")

\* what follows the authority up to the query or the fragment
PathText(tail) == SubSeq(tail, 1, FirstOf(tail, {"?", "#"}) - 1)

\* the text of the query with its '?', "" without query
QueryText(tail) ==
  IF FirstOf(tail, {"?", "#"}) > Len(tail)
       \/ CharAt(tail, FirstOf(tail, {"?", "#"})) = "#"
  THEN ""
  ELSE SubSeq(tail, FirstOf(tail, {"?"}), FirstOf(tail, {"#"}) - 1)

\* the text of the fragment with its '#', "" without fragment
FragmentText(tail) == Substring(tail, FirstOf(tail, {"#"}) - 1)

\* the search and hash getters: "" for a query or fragment that is absent
\* or empty, the space encoded
Getter(text) == IF Len(text) <= 1 THEN "" ELSE ReplaceAll(text, " ", "%20")

\* the URL object with the given scheme, authority and rest
UrlObject(scheme, authority, tail) ==
  [origin |-> scheme \o "://" \o ToLowerCase(HostOf(authority))
                \o PortText(scheme, PortOf(authority)),
   pathname |-> Pathname(PathText(tail)),
   search |-> Getter(QueryText(tail)),
   hash |-> Getter(FragmentText(tail))]

\* new URL(str) for a parseable str without blanks around it
UrlStripped(str) ==
  UrlObject(SchemeName(str, SchemeEnd(str)),
            Authority(AfterSlashes(str, SchemeEnd(str))),
            AfterAuthority(AfterSlashes(str, SchemeEnd(str))))

\* new URL(str) for a parseable str
URL(str) == UrlStripped(Trim(str))

\* urlObj.toString() of a URL object whose query and fragment are not
\* empty strings
Href(urlObj) ==
  urlObj.origin \o urlObj.pathname \o urlObj.search \o urlObj.hash

(* class URLSearchParams: application/x-www-form-urlencoded *)

\* the characters the serializer writes as %XX, with their code, and the
\* codes the parser turns back into a character
PercentCodes == {"20", "2F", "3A", "3D", "3F"}
CodeOf(c) ==
  IF c = " " THEN "20" ELSE IF c = "/" THEN "2F" ELSE IF c = ":" THEN "3A"
  ELSE IF c = "=" THEN "3D" ELSE "3F"
PercentEncoded == {"/", ":", "=", "?"}

\* what a part that followed a % stands for
DecodePart(part) ==
  IF SubSeq(part, 1, 2) \in PercentCodes
  THEN (CHOOSE c \in PercentEncoded \cup {" "} : CodeOf(c) = SubSeq(part, 1, 2))
         \o Substring(part, 2)
  ELSE "%" \o part

RECURSIVE DecodeParts(_)

DecodeParts(parts) ==
  IF parts = <<>> THEN ""
  ELSE DecodePart(Head(parts)) \o DecodeParts(Tail(parts))

\* percent-decoding of a string
PercentDecode(str) ==
  IF "%" \in Chars(str)
  THEN Head(Split(str, "%")) \o DecodeParts(Tail(Split(str, "%")))
  ELSE str

\* the name or value a piece of a query stands for: '+' is a space
Decode(str) == PercentDecode(ReplaceAll(str, "+", " "))

\* the serializer's writing of a name or a value: letters, digits, '-', '.'
\* and '_' as they are, the space as '+', the others as %XX
Encode(str) ==
  ReplaceAll(ReplaceAll(ReplaceAll(ReplaceAll(ReplaceAll(
    str, " ", "+"), "/", "%2F"), ":", "%3A"), "=", "%3D"), "?", "%3F")

\* name of the parameter written name=value or name
ParamName(pair) == Decode(SubSeq(pair, 1, FirstOf(pair, {"="}) - 1))

\* its value, "" when there is no '='
ParamValue(pair) == Decode(Substring(pair, FirstOf(pair, {"="})))

\* the serializer's writing of a parameter
SerializePair(pair) ==
  Encode(ParamName(pair)) \o "=" \o Encode(ParamValue(pair))

\* the parameters of a query, in order: its non-empty parts between '&'
SearchParams(text) ==
  FilterSeq(Split(text, "&"), Range(Split(text, "&")) \ {""})

\* the list searchParams holds after delete(param) of every excluded param
Kept(pairs) ==
  FilterSeq(pairs, {pr \in Range(pairs) : ParamName(pr) \notin excludedParams})

\* the serializer: name=value of each parameter, joined by '&'
Serialize(pairs) == Join([i \in DOMAIN pairs |-> SerializePair(pairs[i])], "&")

\* search after urlObj.searchParams.delete(param) for every excluded param:
\* every delete writes the serialized list back as the query of the URL
DeleteParams(search) ==
  IF Kept(SearchParams(Substring(search, 1))) = <<>> THEN ""
  ELSE "?" \o Serialize(Kept(SearchParams(Substring(search, 1))))

(* class SitemapCleaner *)

\* the for loop of cleanSingleUrl: the first prefix of the list the
\* pathname starts with is cut off, its closing / kept, and the loop ends
StripPrefix(prefixes, pathname) ==
  LET M == {k \in 1..Len(prefixes) : StartsWith(pathname, prefixes[k])}
  IN IF M = {} THEN pathname
     ELSE LET k == CHOOSE i \in M : \A j \in M : i <= j
          IN Substring(pathname, Len(prefixes[k]) - 1)

\* the pathname after the loop, with the / the code puts back in front
\* when it is missing
CleanPathname(stripped) ==
  IF StartsWith(stripped, "/") THEN stripped ELSE "/" \o stripped

\* the try block of cleanSingleUrl on the URL object: the hash emptied, the
\* excluded parameters deleted, the language prefix cut off
CleanUrlObj(version, urlObj) ==
  Href([origin |-> urlObj.origin,
        pathname |-> CleanPathname(StripPrefix(languagePrefixes(version),
                                               urlObj.pathname)),
        search |-> DeleteParams(urlObj.search),
        hash |-> ""])

\* cleanSingleUrl from new URL(url.trim()) on: null when it throws
CleanTrimmed(version, trimmed) ==
  IF ~Parseable(trimmed) THEN Null ELSE CleanUrlObj(version, URL(trimmed))

\* cleanSingleUrl of the given file: null or the normalized URL
cleanSingleUrl(version, url) ==
  IF url = "" THEN Null ELSE CleanTrimmed(version, Trim(url))

\* a test on the pathname as written
isExcludedFile_CaseSensitive(url) ==
  \E ext \in excludedExtensions : EndsWith(URL(url).pathname, ext)

isExcludedFile(url) ==
  LET pathname == URL(url).pathname
  IN \E ext \in excludedExtensions : LowerEndsWith(pathname, ext)

isExcludedPath(url) ==
  LET pathname == URL(url).pathname
  IN \E path \in excludedPaths : LowerStartsWith(pathname, path)

RECURSIVE MapClean(_, _)

\* urls.map(url => this.cleanSingleUrl(url))
MapClean(version, us) ==
  IF us = <<>> THEN <<>>
  ELSE <<cleanSingleUrl(version, Head(us))>>
         \o MapClean(version, Tail(us))

\* a copy that keeps every element
Unique_KeepAll(seq) == seq

RECURSIVE Unique(_)

\* [...new Set(seq)]: the first occurrence of each element, in order
Unique(seq) ==
  IF seq = <<>> THEN <<>>
  ELSE LET init == Unique(SubSeq(seq, 1, Len(seq) - 1))
           last == seq[Len(seq)]
       IN IF last \in Range(init) THEN init ELSE Append(init, last)

RECURSIVE SortStrings(_)

\* seq.sort() on strings without duplicates
SortStrings(seq) ==
  IF seq = <<>> THEN <<>>
  ELSE LET m == CHOOSE i \in DOMAIN seq :
                  \A j \in DOMAIN seq : ~StringLess(seq[j], seq[i])
           rest == SubSeq(seq, 1, m - 1) \o SubSeq(seq, m + 1, Len(seq))
       IN <<seq[m]>> \o SortStrings(rest)

\* .filter(url => url !== null)
NotNull(seq) == FilterSeq(seq, Range(seq) \ {Null})

\* .filter(url => !this.isExcludedFile(url))
NotExcludedFile(seq) ==
  FilterSeq(seq, {u \in Range(seq) : ~isExcludedFile(u)})

\* .filter(url => !this.isExcludedPath(url))
NotExcludedPath(seq) ==
  FilterSeq(seq, {u \in Range(seq) : ~isExcludedPath(u)})

\* SitemapCleaner.process of the given file
Process(version, us) ==
  SortStrings(Unique(NotExcludedPath(NotExcludedFile(
    NotNull(MapClean(version, us))))))

\* generateReport(rawUrls, cleanUrls) throws: it calls isExcludedFile, and
\* with it new URL, on every raw URL
GenerateReportThrows(rawUrls) == \E u \in Range(rawUrls) : ~Parseable(u)

(* the sitemap of the audited site *)

\* the URL of page p
SiteUrl(p) == "https://example.com/" \o CharAt(LowerCase, p)

\* the page a normalized URL is the address of
PageNumber(url) == CHOOSE p \in PageUrls : SiteUrl(p) = url

PageNumbers(us) == [i \in DOMAIN us |-> PageNumber(us[i])]

\* what a sitemap of the site can list: its pages, the first page with a
\* language parameter, a document, and an entry new URL rejects
SitemapEntries ==
  {SiteUrl(p) : p \in PageUrls}
    \cup {SiteUrl(1) \o "?lang=fr", "https://example.com/doc.pdf", "http://"}

\* the lists fetchSitemap can return
RawSitemaps == UNION {[1..n -> SitemapEntries] : n \in 0..NPages}

\* cleaner.process(rawUrls) of either file, for each list fetchSitemap can
\* hand to a handler
Processed ==
  [version \in CleanerVersions |->
     [raw \in RawSitemaps |-> Process(version, raw)]]

\* whether cleaner.generateReport(rawUrls, cleanUrls) throws, for each list
ReportThrows == [raw \in RawSitemaps |-> GenerateReportThrows(raw)]

(* -------------------------- SlackNotifier ----------------------------- *)

\* the methods class SlackNotifier defines
NotifierMethods == {"notifyErrors404", "buildMessage", "sendTestMessage",
                    "truncateUrl", "getPageTitle", "groupByDomain",
                    "sendWeeklySummary"}

\* number of posts made by the catch block of a handler, which calls
\* notifier[method] inside a try when SLACK_WEBHOOK_URL is set; calling a
\* method the class does not define throws a TypeError that is swallowed
TechnicalPosts(hook, name) ==
  IF hook /\ name \in NotifierMethods THEN 1 ELSE 0

(* ----------------------- api/check-links.js --------------------------- *)

\* values of request.query.notify and request.query.maxPages
NotifyParams == {"absent", "true", "false"}
MaxPagesParams == {"absent", "0", "1", "3", "abc", "0x1", "-1"}

\* check-links.js:29
NotifySlack(notify) == notify # "true"

\* the values the handler holds for the maxPages parameter: null, NaN and
\* the integers
JsNull == [type |-> "null", value |-> 0]
NaN == [type |-> "NaN", value |-> 0]
Number(n) == [type |-> "number", value |-> n]

\* the digits of parseInt in the order of their value
RadixDigits == "0123456789abcdefghijklmnopqrstuvwxyz"

\* value of the one-character string c as a digit, -1 when it is none
DigitValue(c) == IndexIn(RadixDigits, LowerChar(c)) - 1

\* how many digits of the radix the string starts with
LeadingDigits(str, radix) ==
  LET I == {i \in 1..Len(str) :
              DigitValue(CharAt(str, i)) \notin 0..(radix - 1)}
  IN IF I = {} THEN Len(str) ELSE (CHOOSE i \in I : \A j \in I : i <= j) - 1

RECURSIVE MathInt(_, _)

\* the integer a string of digits of the radix is the writing of
MathInt(str, radix) ==
  IF str = "" THEN 0
  ELSE radix * MathInt(SubSeq(str, 1, Len(str) - 1), radix)
         + DigitValue(CharAt(str, Len(str)))

\* parseInt from its step 11 on: NaN when no digit leads, else the number
\* the leading digits write, with the sign
ParseDigits(sign, str, radix) ==
  IF LeadingDigits(str, radix) = 0 THEN NaN
  ELSE Number(sign * MathInt(SubSeq(str, 1, LeadingDigits(str, radix)),
                             radix))

\* parseInt after the sign: a prefix 0x or 0X makes the radix 16
ParseUnsigned(sign, str) ==
  IF LowerStartsWith(str, "0x") THEN ParseDigits(sign, Substring(str, 2), 16)
  ELSE ParseDigits(sign, str, 10)

\* parseInt after the leading blanks: a sign may come first
ParseSigned(str) ==
  IF StartsWith(str, "-") THEN ParseUnsigned(-1, Substring(str, 1))
  ELSE IF StartsWith(str, "+") THEN ParseUnsigned(1, Substring(str, 1))
  ELSE ParseUnsigned(1, str)

\* parseInt(str) without radix, for numbers of up to nine digits
ParseInt(str) == ParseSigned(Substring(str, FirstNot(str, " ") - 1))

\* check-links.js:30: request.query.maxPages ? parseInt(...) : null, a
\* parameter that is absent being undefined and an empty one ''
MaxPagesOf(param) ==
  IF param \in {"absent", ""} THEN JsNull ELSE ParseInt(param)

\* the value is truthy: null, NaN and 0 are not
Truthy(v) == v.type = "number" /\ v.value # 0

\* a handler that ignores the cap
UrlsToScan_NoCap(clean, maxPages) == clean

\* check-links.js:53: maxPages ? cleanUrls.slice(0, maxPages) : cleanUrls
UrlsToScan(clean, maxPages) ==
  IF Truthy(MaxPagesOf(maxPages))
  THEN Slice(clean, 0, MaxPagesOf(maxPages).value)
  ELSE clean

\* the list handed to scanWebsite: cron.js:52-56 keeps the first
\* maxPagesLimit URLs, check-links.js:53 applies the maxPages parameter
Capped(clean) ==
  IF trigger = "cron" THEN Slice(clean, 0, CronMaxPagesLimit)
  ELSE UrlsToScan(clean, query.maxPages)

\* the catch block of either handler: the technical-error notification,
\* then the 500 answer
Fatal(name) ==
  /\ hpc' = "responded"
  /\ response' = [code |-> 500, success |-> FALSE, sent |-> FALSE,
                  errors404 |-> <<>>]
  /\ server' = Json(server, response')
  /\ techCalls' = techCalls + TechnicalPosts(webhook, name)

\* the method the catch block of the running handler calls
TechnicalMethod == IF trigger = "cron" THEN "notifyCronError"
                   ELSE "notifyTechnicalError"

\* values of request.method: the handler tells OPTIONS from every other
\* method, for which GET stands
Methods == {"GET", "OPTIONS"}

\* what an OPTIONS request is answered: status 200 and no body
\* (check-links.js:18)
Preflight ==
  [code |-> 200, success |-> FALSE, sent |-> FALSE, errors404 |-> <<>>]

\* the handler of check-links.js is called: an OPTIONS request is answered
\* at once through response.end(), before the query is read; any other
\* request reads its configuration and asks for the sitemap
\* (check-links.js:13-38)
CheckLinksHandler(m, q) ==
  /\ trigger = "none"
  /\ method' = m
  /\ query' = q
  /\ IF m = "OPTIONS"
     THEN /\ trigger' = "preflight"
          /\ hpc' = "responded"
          /\ response' = Preflight
          /\ UNCHANGED notifySlack
     ELSE /\ trigger' = "ondemand"
          /\ hpc' = "fetch-sitemap"
          /\ notifySlack' = NotifySlack(q.notify)
          /\ UNCHANGED response
  /\ UNCHANGED <<kvars, auth, checkCalls, webhook, originalUrls, cleanUrls,
                 sinkCalls, post, techCalls, svars>>

\* a request arrives at /api/check-links of the hosting platform
OnDemandRequest(m, q) == CheckLinksHandler(m, q) /\ UNCHANGED server

\* a request arrives at /api/check-links of the local server, whose
\* registrations take every method (server.js:18, 53)
ServerCheckLinks(m, q) ==
  /\ server.registration = "none"
  /\ server' = [server EXCEPT !.registration = Serving("/api/check-links")]
  /\ CheckLinksHandler(m, q)

\* a GET arrives at / of the local server
ServerHome ==
  /\ server' = [server EXCEPT !.home = HomePage(server.lastScanResult)]
  /\ UNCHANGED <<kvars, webhook, trigger, query, method, notifySlack, hpc,
                 originalUrls, cleanUrls, sinkCalls, post, techCalls, response,
                 checkCalls, auth, svars>>

(* --------------------------- api/cron.js ------------------------------ *)

\* values of process.env.CRON_SECRET and of the Authorization header
CronSecrets == {"undefined", "s3cret"}
AuthHeaders ==
  {"undefined", "Bearer s3cret", "Bearer wrong", "Bearer undefined"}

\* a test that lets nobody in when no secret is configured
Authorized_SecretRequired(header, secret) ==
  secret # "undefined" /\ header = "Bearer " \o secret

\* a test that looks at the scheme only
Authorized_AnyBearer(header, secret) == SubSeq(header, 1, 7) = "Bearer "

\* cron.js:17
Authorized(header, secret) == header = "Bearer " \o secret

\* the scheduler, or anyone else, calls /api/cron
CronRequest(header, secret) ==
  /\ trigger = "none"
  /\ trigger' = "cron"
  /\ auth' = [header |-> header, secret |-> secret]
  /\ IF Authorized(header, secret)
     THEN /\ hpc' = "fetch-sitemap"
          /\ UNCHANGED response
     ELSE /\ hpc' = "responded"
          /\ response' = [code |-> 401, success |-> FALSE, sent |-> FALSE,
                          errors404 |-> <<>>]
  /\ UNCHANGED <<lvars, checkCalls, webhook, query, method, notifySlack,
                 originalUrls, cleanUrls, sinkCalls, post, techCalls, svars>>

\* generateCronAnalysis reads scanResults.summary.warnings.length
\* (cron.js:223), a field scanWebsite never creates
CronAnalysisThrows(res) == "warnings" \notin DOMAIN res.summary

(* ----------------------- both handlers -------------------------------- *)

\* fetchSitemap rejects: the top-level sitemap is unreachable or unparseable
SitemapFails ==
  /\ hpc = "fetch-sitemap"
  /\ Fatal(TechnicalMethod)
  /\ UNCHANGED <<kvars, auth, checkCalls, webhook, trigger, query, method,
                 notifySlack, originalUrls, cleanUrls, sinkCalls, post, svars>>

\* fetchSitemap returns raw: an empty list is fatal, anything else is
\* cleaned by the SitemapCleaner of the build, capped and handed to a new
\* LinkChecker, which reads MAX_CONCURRENT_CHECKS; check-links.js also
\* builds the cleaning report
SitemapReturns(version, raw) ==
  /\ hpc = "fetch-sitemap"
  /\ IF Len(raw) = 0 \/ (trigger = "ondemand" /\ ReportThrows[raw])
     THEN /\ Fatal(TechnicalMethod)
          /\ UNCHANGED <<originalUrls, cleanUrls, svars>>
     ELSE /\ originalUrls' = Len(raw)
          /\ cleanUrls' = Processed[version][raw]
          /\ \E env \in MaxConcurrentEnv :
                StartScan(PageNumbers(Capped(cleanUrls')), env)
          /\ hpc' = "scanning"
          /\ UNCHANGED <<techCalls, response, server>>
  /\ UNCHANGED <<kvars, auth, checkCalls, webhook, trigger, query, method,
                 notifySlack, sinkCalls, post>>

\* the answer of check-links.js:80-111 for the scan that has returned
Report(res, sent) ==
  [code |-> 200, success |-> TRUE, sent |-> sent,
   errors404 |-> res.summary.errors404]

\* scanWebsite has returned to check-links.js: step 4 and the answer, or
\* the POST to the webhook when there is something to notify
OnDemandScanReturns ==
  /\ trigger = "ondemand"
  /\ hpc = "scanning"
  /\ spc = "done"
  /\ IF notifySlack /\ Len(results.summary.errors404) > 0 /\ webhook
     THEN /\ hpc' = "posting"
          /\ sinkCalls' = sinkCalls + 1
          /\ post' = "pending"
          /\ UNCHANGED <<response, server>>
     ELSE /\ hpc' = "responded"
          /\ response' = Report(results, FALSE)
          /\ server' = Json(server, response')
          /\ UNCHANGED <<sinkCalls, post>>
  /\ UNCHANGED <<kvars, auth, checkCalls, webhook, trigger, query, method,
                 notifySlack, originalUrls, cleanUrls, techCalls, svars>>

\* PostSettles with a failure of the POST that notifyErrors404 lets through
\* to the catch block of the handler
PostSettles_Uncaught(ok) ==
  /\ hpc = "posting"
  /\ post' = (IF ok THEN "sent" ELSE "failed")
  /\ IF ok
     THEN /\ hpc' = "responded"
          /\ response' = Report(results, TRUE)
          /\ server' = Json(server, response')
          /\ UNCHANGED techCalls
     ELSE Fatal(TechnicalMethod)
  /\ UNCHANGED <<kvars, auth, checkCalls, webhook, trigger, query, method,
                 notifySlack, originalUrls, cleanUrls, sinkCalls, svars>>

\* the POST of notifyErrors404 settles: the method returns true, or
\* catches the failure and returns false (SlackNotifier.js:137-153), and
\* the handler answers with the report
PostSettles(ok) ==
  /\ hpc = "posting"
  /\ hpc' = "responded"
  /\ post' = (IF ok THEN "sent" ELSE "failed")
  /\ response' = Report(results, ok)
  /\ server' = Json(server, response')
  /\ UNCHANGED <<kvars, auth, checkCalls, webhook, trigger, query, method,
                 notifySlack, originalUrls, cleanUrls, sinkCalls, techCalls,
                 svars>>

\* scanWebsite has returned to cron.js: steps 4 and 5.  A throw of
\* generateCronAnalysis, or of the call of a method SlackNotifier does not
\* define, lands in the catch block
CronScanReturns ==
  /\ trigger = "cron"
  /\ hpc = "scanning"
  /\ spc = "done"
  /\ IF CronAnalysisThrows(results)
     THEN Fatal(TechnicalMethod)
     ELSE IF Len(results.summary.errors404) > 0 /\ webhook
     THEN IF "notifyCronResults" \in NotifierMethods
          THEN /\ hpc' = "posting"
               /\ UNCHANGED <<response, techCalls, server>>
          ELSE Fatal(TechnicalMethod)
     ELSE /\ hpc' = "responded"
          /\ response' = Report(results, FALSE)
          /\ UNCHANGED <<techCalls, server>>
  /\ sinkCalls' = sinkCalls +
       (IF ~CronAnalysisThrows(results) /\ webhook
           /\ Len(results.summary.errors404) > 0
           /\ "notifyCronResults" \in NotifierMethods THEN 1 ELSE 0)
  /\ post' = (IF sinkCalls' > sinkCalls THEN "pending" ELSE post)
  /\ UNCHANGED <<kvars, auth, checkCalls, webhook, trigger, query, method,
                 notifySlack, originalUrls, cleanUrls, svars>>

ScanStep ==
  \/ \E f \in PageFetchFailures : PageFetchFails(f)
  \/ \E links \in AllContents : PageFetchOk(links)
  \/ \E k \in DOMAIN inflight, o \in Outcomes : LinkSettles(k, o)
  \/ BatchJoin
  \/ CheckLinksInBatchResumes
  \/ ScanSinglePageResumes
  \/ ScanWebsiteResumes
  \/ BatchSleepEnds
  \/ PageSleepEnds

NextScan ==
  \/ \E us \in UrlLists, env \in MaxConcurrentEnv : DirectCall(us, env)
  \/ ScanStep

Next ==
  \/ \E m \in Methods, q \in [notify : NotifyParams,
                                maxPages : MaxPagesParams] :
       OnDemandRequest(m, q)
  \/ \E header \in AuthHeaders, secret \in CronSecrets :
       CronRequest(header, secret)
  \/ SitemapFails
  \/ \E version \in CleanerVersions, raw \in RawSitemaps :
       SitemapReturns(version, raw)
  \/ OnDemandScanReturns
  \/ \E ok \in BOOLEAN : PostSettles(ok)
  \/ CronScanReturns
  \/ ScanStep

\* a run of one of the two handlers
Spec == Init /\ [][Next]_vars

NextServer ==
  \/ \E m \in Methods, q \in [notify : NotifyParams,
                                maxPages : MaxPagesParams] :
       ServerCheckLinks(m, q)
  \/ ServerHome
  \/ SitemapFails
  \/ \E version \in CleanerVersions, raw \in RawSitemaps :
       SitemapReturns(version, raw)
  \/ OnDemandScanReturns
  \/ \E ok \in BOOLEAN : PostSettles(ok)
  \/ ScanStep

\* the local server of server.js serving one scan and any number of GET /
ServerSpec == Init /\ [][NextServer]_vars

\* scanWebsite used as a library, which never reads the webhook setting
InitScan == Init /\ webhook = FALSE

ScanSpec == InitScan /\ [][NextScan]_vars

\* number of direct calls of checkSingleLink on one LinkChecker
MaxDirectChecks == 2

\* every link the site can serve
AllLinks == UNION {Range(c) : c \in AllContents}

\* the outcome of a GET that has not settled
NoOutcome == [kind |-> "none", status |-> 0, code |-> Null]

\* new LinkChecker() by a user of the class who goes on to call its
\* methods: the constructor reads MAX_CONCURRENT_CHECKS and starts the
\* counters at zero (LinkChecker.js:10-39)
NewLinkChecker(env) ==
  /\ trigger = "none"
  /\ trigger' = "check"
  /\ maxConcurrent' = (IF env = 0 THEN DefaultMaxConcurrent ELSE env)
  /\ stats' = ZeroStats
  /\ UNCHANGED <<lvars, auth, checkCalls, webhook, query, method, notifySlack, hpc,
                 originalUrls, cleanUrls, sinkCalls, post, techCalls, response, spc,
                 urls, pageIndex, linksToCheck, pageLinks, batchI, inflight,
                 pcResults, rvars, results, tvars>>

\* checkSingleLink called directly on a link: it issues its GET and
\* returns a pending promise (LinkChecker.js:152-156)
CallCheckSingleLink(link) ==
  /\ trigger = "check"
  /\ Len(checkCalls) < MaxDirectChecks
  /\ checkCalls' = Append(checkCalls, [link |-> link, outcome |-> NoOutcome,
                                       promise |-> Pending])
  /\ UNCHANGED <<lvars, auth, webhook, trigger, query, method, notifySlack, hpc,
                 originalUrls, cleanUrls, sinkCalls, post, techCalls, response,
                 svars>>

\* the GET of the n-th direct call settles with outcome o and the rest of
\* checkSingleLink runs (LinkChecker.js:157-214)
DirectGetSettles(n, o) ==
  /\ checkCalls[n].promise.state = "pending"
  /\ checkCalls' = [checkCalls EXCEPT
                      ![n].outcome = o,
                      ![n].promise = CheckSingleLink(checkCalls[n].link, o)]
  /\ stats' = StatsAfterCheck(stats, o)
  /\ UNCHANGED <<lvars, auth, webhook, trigger, query, method, notifySlack, hpc,
                 originalUrls, cleanUrls, sinkCalls, post, techCalls, response, spc,
                 urls, pageIndex, maxConcurrent, linksToCheck, pageLinks,
                 batchI, inflight, pcResults, rvars, results, tvars>>

\* number of direct calls of scanSinglePage and checkLinksInBatch on one
\* LinkChecker
MaxDirectScans == 1

\* scanSinglePage called directly on a page URL: it requests the page
\* (LinkChecker.js:46-51); the call ends when the page is returned
CallScanSinglePage(u) ==
  /\ trigger = "check"
  /\ scans < MaxDirectScans
  /\ scans' = scans + 1
  /\ entry' = "scanSinglePage"
  /\ spc' = "fetching-page"
  /\ urls' = <<u>>
  /\ pageIndex' = 1
  /\ UNCHANGED <<hvars, maxConcurrent, linksToCheck, pageLinks, batchI,
                 inflight, pcResults, checkedLinks, pageResult, results,
                 stats, overlap, pageSleeps, pcLog>>

\* checkLinksInBatch called directly on a list of links, which it does not
\* filter: it returns [] for an empty list and otherwise has
\* processConcurrent launch the first batch (LinkChecker.js:116-125); the
\* call ends when the checked links are returned
CallCheckLinksInBatch(links) ==
  /\ trigger = "check"
  /\ scans < MaxDirectScans
  /\ scans' = scans + 1
  /\ entry' = "checkLinksInBatch"
  /\ linksToCheck' = links
  /\ IF links = <<>>
     THEN /\ spc' = "links-checked"
          /\ checkedLinks' = <<>>
          /\ UNCHANGED <<batchI, inflight, pcResults, pcLog>>
     ELSE /\ spc' = "verifying"
          /\ batchI' = 0
          /\ inflight' = Launch(<<>>, links, 0, maxConcurrent)
          /\ pcResults' = <<>>
          /\ pcLog' = Append(pcLog, Called(0, links, maxConcurrent))
          /\ UNCHANGED checkedLinks
  /\ UNCHANGED <<hvars, urls, pageIndex, maxConcurrent, pageLinks,
                 pageResult, results, stats, overlap, pageSleeps>>

\* values of MAX_CONCURRENT_CHECKS, link lists and outcomes of a GET for
\* the direct calls of scanSinglePage and checkLinksInBatch
DirectEnv == {0, 1}
DirectContents == {c \in AllContents : Len(c) <= 2}
DirectOutcomes == {o \in Outcomes : o.kind = "response" /\ o.status < 500}

\* the continuations of a direct scanSinglePage or checkLinksInBatch call
DirectScanStep ==
  \/ \E f \in PageFetchFailures : PageFetchFails(f)
  \/ \E links \in DirectContents : PageFetchOk(links)
  \/ \E k \in DOMAIN inflight, o \in DirectOutcomes : LinkSettles(k, o)
  \/ BatchJoin
  \/ CheckLinksInBatchResumes
  \/ ScanSinglePageResumes
  \/ BatchSleepEnds

NextCheck ==
  \/ \E env \in DirectEnv : NewLinkChecker(env)
  \/ \E link \in AllLinks : CallCheckSingleLink(link)
  \/ \E n \in DOMAIN checkCalls, o \in Outcomes : DirectGetSettles(n, o)
  \/ \E u \in PageUrls : CallScanSinglePage(u)
  \/ \E links \in DirectContents : CallCheckLinksInBatch(links)
  \/ DirectScanStep

\* the methods of a LinkChecker other than scanWebsite used on their own
CheckSpec == InitScan /\ [][NextCheck]_vars

\* every HTTP request is eventually answered or fails and every timer fires
FairScanSpec == ScanSpec /\ WF_vars(ScanStep)

\* number of scanWebsite calls made on one LinkChecker
MaxScans == 2

\* scanWebsite called again on the LinkChecker whose scan has returned
Rescan(us) ==
  /\ trigger = "direct"
  /\ spc = "done"
  /\ scans < MaxScans
  /\ scans' = scans + 1
  /\ ScanWebsite(us)
  /\ UNCHANGED <<hvars, maxConcurrent, overlap>>

NextRescan ==
  \/ NextScan
  \/ \E us \in UrlLists : Rescan(us)

\* a user of the class who scans, and scans again once the scan has
\* returned
RescanSpec == InitScan /\ [][NextRescan]_vars

(* ------------- a LinkChecker shared by overlapping calls -------------- *)

\* the locals of the scanWebsite call the LinkChecker was made for
fvars == <<spc, urls, pageIndex, linksToCheck, pageLinks, batchI, inflight,
           pcResults, rvars, results, pageSleeps, pcLog>>

\* the locals of scanWebsite(us) at its first await or, for an empty list,
\* at its return (LinkChecker.js:226-240, 270-277); st is this.stats after
\* the resetStats of LinkChecker.js:224
Entered(us, st) ==
  IF us = <<>>
  THEN [NoCall EXCEPT !.spc = "done",
                      !.results = Finalize(NewResults(us), st)]
  ELSE [NoCall EXCEPT !.spc = "fetching-page", !.urls = us, !.pageIndex = 1,
                      !.results = NewResults(us)]

\* the locals of a call when its scanSinglePage has returned page
Returning(call, page) ==
  [call EXCEPT !.spc = "page-returned", !.pageResult = page,
               !.checkedLinks = <<>>, !.linksToCheck = <<>>,
               !.pageLinks = <<>>, !.batchI = 0]

\* the locals of a call when scanWebsite has resumed with the page
\* scanSinglePage returned, LinkChecker.js:243-277; st is this.stats at
\* that moment
PageReturned(call, st) ==
  IF MorePages(call.pageIndex, call.urls)
  THEN [call EXCEPT !.spc = "page-sleep",
                    !.results = RecordPage(@, call.pageResult),
                    !.pageResult = NoPage]
  ELSE [call EXCEPT !.spc = "done",
                    !.results = Finalize(RecordPage(@, call.pageResult), st),
                    !.pageResult = NoPage]

\* the locals of a call when scanSinglePage has the links of its page:
\* checkLinksInBatch returns [] for an empty list and otherwise has
\* processConcurrent launch the first batch
Verifying(call, links, c) ==
  IF LinksToCheck(links) = <<>>
  THEN [call EXCEPT !.spc = "links-checked",
                    !.pageLinks = links,
                    !.linksToCheck = <<>>,
                    !.checkedLinks = <<>>]
  ELSE [call EXCEPT !.spc = "verifying",
                    !.pageLinks = links,
                    !.linksToCheck = LinksToCheck(links),
                    !.batchI = 0,
                    !.inflight = Launch(<<>>, LinksToCheck(links), 0, c),
                    !.pcResults = <<>>]

\* the entries processConcurrent holds once the running batch of the call
\* has settled
EntriesOf(call, c) ==
  call.pcResults
    \o BatchEntries(call.linksToCheck, call.batchI, c, call.inflight)

\* the locals of a call when its batch has settled: the pause before the
\* next batch starts, or processConcurrent returns
Joining(call, c) ==
  IF MoreBatches(call.linksToCheck, call.batchI, c)
  THEN [call EXCEPT !.spc = "batch-sleep",
                    !.pcResults = EntriesOf(call, c),
                    !.inflight = Release(@, call.linksToCheck,
                                         call.batchI, c)]
  ELSE [call EXCEPT !.spc = "batch-returned",
                    !.pcResults = EntriesOf(call, c),
                    !.inflight = Outstanding(Release(@, call.linksToCheck,
                                                     call.batchI, c))]

\* the page GET of the overlapping call answers with a status other than
\* 200 or rejects
OverlapPageFetchFails(f) ==
  /\ overlap.spc = "fetching-page"
  /\ overlap' = Returning(overlap,
                   InaccessiblePage(overlap.urls[overlap.pageIndex],
                                    f.status))
  /\ UNCHANGED <<hvars, fvars, maxConcurrent, stats, scans>>

\* the page GET of the overlapping call answers 200 with a document
\* holding links
OverlapPageFetchOk(links) ==
  /\ overlap.spc = "fetching-page"
  /\ links \in PageContents(overlap.urls[overlap.pageIndex])
  /\ overlap' = Verifying(overlap, links, maxConcurrent)
  /\ UNCHANGED <<hvars, fvars, maxConcurrent, stats, scans>>

\* the GET of the k-th link of the overlapping call settles with outcome o
\* and the continuation of checkSingleLink runs on the shared this.stats
OverlapLinkSettles(k, o) ==
  /\ overlap.spc = "verifying"
  /\ overlap.inflight[k].state = "pending"
  /\ overlap' = [overlap EXCEPT
                   !.inflight[k] = CheckSingleLink(overlap.linksToCheck[k], o)]
  /\ stats' = StatsAfterCheck(stats, o)
  /\ UNCHANGED <<hvars, fvars, maxConcurrent, scans>>

\* Promise.allSettled of the overlapping call resolves
OverlapBatchJoin ==
  /\ overlap.spc = "verifying"
  /\ BatchSettled(overlap.inflight, overlap.linksToCheck, overlap.batchI,
                  maxConcurrent)
  /\ overlap' = Joining(overlap, maxConcurrent)
  /\ UNCHANGED <<hvars, fvars, maxConcurrent, stats, scans>>

\* checkLinksInBatch of the overlapping call resumes and returns
OverlapCheckLinksInBatchResumes ==
  /\ overlap.spc = "batch-returned"
  /\ overlap' = [overlap EXCEPT !.spc = "links-checked",
                                !.checkedLinks = CheckedLinks(overlap.pcResults),
                                !.pcResults = <<>>]
  /\ UNCHANGED <<hvars, fvars, maxConcurrent, stats, scans>>

\* scanSinglePage of the overlapping call resumes, counts in the shared
\* this.stats and returns
OverlapScanSinglePageResumes ==
  /\ overlap.spc = "links-checked"
  /\ stats' = StatsAfterPage(stats, overlap.checkedLinks)
  /\ overlap' = Returning(overlap,
                   AccessiblePage(overlap.urls[overlap.pageIndex],
                                  overlap.pageLinks, overlap.checkedLinks))
  /\ UNCHANGED <<hvars, fvars, maxConcurrent, scans>>

\* scanWebsite of the overlapping call resumes with the page
OverlapScanWebsiteResumes ==
  /\ overlap.spc = "page-returned"
  /\ overlap' = PageReturned(overlap, stats)
  /\ UNCHANGED <<hvars, fvars, maxConcurrent, stats, scans>>

\* sleep(1000) between two batches of the overlapping call ends
OverlapBatchSleepEnds ==
  /\ overlap.spc = "batch-sleep"
  /\ overlap' = [overlap EXCEPT
                   !.spc = "verifying",
                   !.batchI = NextBatchStart(@, maxConcurrent),
                   !.inflight = Launch(@, overlap.linksToCheck,
                                       NextBatchStart(overlap.batchI,
                                                      maxConcurrent),
                                       maxConcurrent)]
  /\ UNCHANGED <<hvars, fvars, maxConcurrent, stats, scans>>

\* sleep(500) between two pages of the overlapping call ends
OverlapPageSleepEnds ==
  /\ overlap.spc = "page-sleep"
  /\ overlap' = [overlap EXCEPT !.spc = "fetching-page",
                                !.pageIndex = @ + 1]
  /\ UNCHANGED <<hvars, fvars, maxConcurrent, stats, scans>>

(* The inputs of the scans made on a shared LinkChecker.  Two scans in
   flight multiply each other's states, so these scans run on a smaller
   site than the single scan of ScanSpec: pages of at most two links,
   answered by a 200, a 404 or a timeout, checked one or two at a time *)

\* values of MAX_CONCURRENT_CHECKS
SharedEnv == {1, 2}

\* what axios.get(link.url) does
SharedOutcomes ==
  {o \in Outcomes : \/ o.kind = "response" /\ o.status \in {200, 404}
                    \/ o.code = "ECONNABORTED"}

\* what the pages serve
SharedContents == {c \in AllContents : Len(c) <= 2}

\* the lists the first scan is made with
FirstLists == {<<>>, <<1>>}

\* the lists the overlapping call is made with
OverlapLists == {<<>>, <<2>>, <<2, 1>>}

OverlapStep ==
  \/ \E f \in PageFetchFailures : OverlapPageFetchFails(f)
  \/ \E links \in SharedContents : OverlapPageFetchOk(links)
  \/ \E k \in DOMAIN overlap.inflight, o \in SharedOutcomes :
       OverlapLinkSettles(k, o)
  \/ OverlapBatchJoin
  \/ OverlapCheckLinksInBatchResumes
  \/ OverlapScanSinglePageResumes
  \/ OverlapScanWebsiteResumes
  \/ OverlapBatchSleepEnds
  \/ OverlapPageSleepEnds

\* scanWebsite called on the LinkChecker while its scan is running: the
\* call resets the this.stats both scans count in and goes on with locals
\* of its own.  At most two calls are in flight
RescanWhileRunning(us) ==
  /\ trigger = "direct"
  /\ spc # "done"
  /\ overlap.spc \in {"idle", "done"}
  /\ scans < MaxScans
  /\ scans' = scans + 1
  /\ stats' = ResetStats(stats)
  /\ overlap' = Entered(us, stats')
  /\ UNCHANGED <<hvars, fvars, maxConcurrent>>

\* the public resetStats() called by the user of the LinkChecker, at any
\* moment of its scans
CallResetStats ==
  /\ trigger = "direct"
  /\ stats' = ResetStats(stats)
  /\ UNCHANGED <<hvars, fvars, maxConcurrent, cvars>>

NextShared ==
  \/ \E us \in FirstLists, env \in SharedEnv : DirectCall(us, env)
  \/ \E f \in PageFetchFailures : PageFetchFails(f)
  \/ \E links \in SharedContents : PageFetchOk(links)
  \/ \E k \in DOMAIN inflight, o \in SharedOutcomes : LinkSettles(k, o)
  \/ BatchJoin
  \/ CheckLinksInBatchResumes
  \/ ScanSinglePageResumes
  \/ ScanWebsiteResumes
  \/ BatchSleepEnds
  \/ PageSleepEnds
  \/ \E us \in UrlLists : Rescan(us)
  \/ \E us \in OverlapLists : RescanWhileRunning(us)
  \/ CallResetStats
  \/ OverlapStep

\* users of the class who call scanWebsite and resetStats on one
\* LinkChecker at any moment, during its scan or after it
SharedSpec == InitScan /\ [][NextShared]_vars

(* ------------------ SitemapCleaner used on its own -------------------- *)

\* number of direct calls of cleanSingleUrl
MaxCleanCalls == 2

\* length of the lists process is called with
MaxSitemap == 3

\* URLs process is called with: pages with and without language prefix or
\* parameter, files, an excluded path, a string new URL rejects, a
\* parameter without value and a URL of another scheme
ProcessInputs ==
  {"https://example.com/a", "https://example.com/en/a",
   "https://example.com/b", "https://example.com/a?lang=fr",
   "https://example.com/en/Doc.PDF?lang=en",
   "https://example.com/en-us/img.png", "https://example.com/en/api/x",
   "http://", "https://example.com/b?id", "ftp://example.com/a"}

\* URLs cleanSingleUrl is called with
CleanInputs ==
  ProcessInputs
    \cup {"https://example.com/en/fr/a", "https://example.com/en-us/en-gb/a",
          "https://example.com/en-us/a?utm_source=x&id=1#top",
          " https://example.com ", "not a url",
          "https://example.com/a b?q=a b&&next=/home",
          "HTTPS:/Example.com:443/en/../a/./", "https://exa mple.com/a"}

\* the URLs earlier calls of cleanSingleUrl returned
CleanResults == {cleanCalls[i].result : i \in DOMAIN cleanCalls} \ {Null}

\* everything but the two call histories and the trigger is left alone
CleanerFrame ==
  UNCHANGED <<web, fstack, fout, fetches, extractCalls, server, auth,
              checkCalls, webhook, query, method, notifySlack, hpc, originalUrls, cleanUrls,
              sinkCalls, post, techCalls, response, svars>>

\* cleanSingleUrl(url) on a new SitemapCleaner of the given file
CallCleanSingleUrl(version, url) ==
  /\ trigger \in {"none", "clean"}
  /\ Len(cleanCalls) < MaxCleanCalls
  /\ trigger' = "clean"
  /\ cleanCalls' = Append(cleanCalls,
                          [version |-> version, url |-> url,
                           result |-> cleanSingleUrl(version, url)])
  /\ UNCHANGED processCalls
  /\ CleanerFrame

\* process(us) on a new SitemapCleaner of the given file
CallProcess(version, us) ==
  /\ trigger = "none"
  /\ trigger' = "process"
  /\ processCalls' = <<[version |-> version, urls |-> us,
                        result |-> Process(version, us)]>>
  /\ UNCHANGED cleanCalls
  /\ CleanerFrame

NextClean ==
  \/ \E version \in CleanerVersions, url \in CleanInputs \cup CleanResults :
       CallCleanSingleUrl(version, url)
  \/ \E version \in CleanerVersions,
        us \in UNION {[1..n -> ProcessInputs] : n \in 0..MaxSitemap} :
       CallProcess(version, us)

CleanSpec == InitScan /\ [][NextClean]_vars

(* ------------------- LinkExtractor used on its own --------------------- *)

\* number of a elements of a page
MaxHrefs == 3

\* href attributes of the a elements of a page: root-relative, relative and
\* absolute ones, with and without fragment, a fragment-only anchor, links
\* that are not HTTP, an absolute URL new URL rejects and an empty attribute
Hrefs ==
  {"/other", "/other#section", "other", "https://example.com/other",
   "/a#top", "#top", "https://ext.com", "mailto:a@b.c", "ftp://ext.com/f",
   "http://", ""}

\* pages the links are extracted from
BaseUrls == {"https://example.com/a", "https://example.com/docs/b"}

\* str.includes(part) for a one-character part
Includes(str, part) == FirstOf(str, {part}) <= Len(str)

\* the pathname up to its last /, against which a relative reference is
\* resolved
Directory(pathname) ==
  LET I == {i \in 1..Len(pathname) : CharAt(pathname, i) = "/"}
  IN SubSeq(pathname, 1, CHOOSE i \in I : \A j \in I : j <= i)

\* new URL(href, baseUrl).href, Null when new URL throws, for the
\* references of Hrefs: an absolute http URL is parsed on its own, a URL of
\* another scheme is kept as written, a reference that starts with / is
\* put after the origin of the base and any other one after its directory
NewUrlHref(href, baseUrl) ==
  IF SchemeOf(href) # ""
  THEN IF Parseable(href) THEN Href(URL(href)) ELSE Null
  ELSE IF StartsWith(href, "ftp://") THEN href
  ELSE IF StartsWith(href, "/") THEN URL(baseUrl).origin \o href
  ELSE URL(baseUrl).origin \o Directory(URL(baseUrl).pathname) \o href

\* the beginnings of href resolveUrl answers null for
IgnoredPrefixes == {"#", "javascript:", "mailto:", "tel:"}

\* utils.resolveUrl
resolveUrl(href, baseUrl) ==
  IF href = "" \/ \E prefix \in IgnoredPrefixes : StartsWith(href, prefix)
  THEN Null
  ELSE NewUrlHref(href, baseUrl)

\* resolveUrl(href, baseUrl) for each page and each href of the model
Resolved ==
  [baseUrl \in BaseUrls |-> [href \in Hrefs |-> resolveUrl(href, baseUrl)]]

\* the object extractSingleLink builds for a resolved href; duplicateCount
\* 0 stands for the property being absent
ExtractedLink(href, absoluteUrl, baseUrl) ==
  [url |-> absoluteUrl, originalHref |-> href, foundOn |-> baseUrl,
   duplicateCount |-> 0]

RECURSIVE ExtractAll(_, _)

\* the each loop of extractLinks over the a elements: extractSingleLink
\* answers null for a missing href and for an href resolveUrl rejects, and
\* the other links are pushed in document order
ExtractAll(hrefs, baseUrl) ==
  IF hrefs = <<>> THEN <<>>
  ELSE IF Head(hrefs) = "" \/ Resolved[baseUrl][Head(hrefs)] = Null
  THEN ExtractAll(Tail(hrefs), baseUrl)
  ELSE <<ExtractedLink(Head(hrefs), Resolved[baseUrl][Head(hrefs)],
                       baseUrl)>>
         \o ExtractAll(Tail(hrefs), baseUrl)

\* a repeat that leaves the first link as it is
CountDuplicate_Forget(existing) == existing

\* existing.duplicateCount = (existing.duplicateCount || 1) + 1
CountDuplicate(existing) ==
  [existing EXCEPT !.duplicateCount = (IF @ = 0 THEN 1 ELSE @) + 1]

\* the forEach of deduplicateLinks on one more link: a new key is set at
\* the end of the map, a known one has its first link counted up
DedupStep(unique, link) ==
  IF \E i \in DOMAIN unique : unique[i].url = link.url
  THEN [i \in DOMAIN unique |->
          IF unique[i].url = link.url THEN CountDuplicate(unique[i])
          ELSE unique[i]]
  ELSE Append(unique, link)

RECURSIVE deduplicateLinks(_)

\* LinkExtractor.deduplicateLinks: the values of the map in insertion order
deduplicateLinks(links) ==
  IF links = <<>> THEN <<>>
  ELSE DedupStep(deduplicateLinks(SubSeq(links, 1, Len(links) - 1)),
                 links[Len(links)])

\* LinkExtractor.extractLinks with excludeImages set
extractLinks(hrefs, baseUrl) == deduplicateLinks(ExtractAll(hrefs, baseUrl))

\* the filter of scanSinglePage on a link of the page
IsLinkToCheck(link) ==
  /\ StartsWith(link.url, "http")
  /\ ~Includes(link.url, "#")
  /\ ~StartsWith(link.originalHref, "mailto:")
  /\ ~StartsWith(link.originalHref, "tel:")

\* LinkChecker.js:68-74 on the links extractLinks returned
FilterLinksToCheck(links) ==
  FilterSeq(links, {l \in Range(links) : IsLinkToCheck(l)})

\* scanSinglePage from the extraction to the filter, on a page whose a
\* elements carry the given hrefs
CallExtractLinks(hrefs, baseUrl) ==
  /\ trigger = "none"
  /\ trigger' = "extract"
  /\ extractCalls' = <<[baseUrl |-> baseUrl, hrefs |-> hrefs,
                        raw |-> ExtractAll(hrefs, baseUrl),
                        links |-> extractLinks(hrefs, baseUrl),
                        linksToCheck |->
                          FilterLinksToCheck(extractLinks(hrefs, baseUrl))]>>
  /\ UNCHANGED <<cleanCalls, processCalls, web, fstack, fout, fetches, server,
                 auth, checkCalls, webhook, query, method, notifySlack, hpc, originalUrls,
                 cleanUrls, sinkCalls, post, techCalls, response, svars>>

NextExtract ==
  \E baseUrl \in BaseUrls,
     hrefs \in UNION {[1..n -> Hrefs] : n \in 0..MaxHrefs} :
    CallExtractLinks(hrefs, baseUrl)

ExtractSpec == InitScan /\ [][NextExtract]_vars

(* ====================== properties of the scan ======================== *)

RECURSIVE AllChecked(_)
\* every LinkCheckResult of a report, page after page
AllChecked(pages) ==
  IF pages = <<>> THEN <<>>
  ELSE Head(pages).checkedLinks \o AllChecked(Tail(pages))

Broken404(l) == l.status = "broken" /\ l.statusCode = 404

\* the GETs that have been issued and have not settled
PendingGets == {k \in DOMAIN inflight : inflight[k].state = "pending"}

\* the number of the batch link k belongs to
BatchOf(k) == (k - 1) \div maxConcurrent

Categories == {"ok", "broken", "warning", "timeout", "error"}

\* C1: when scanWebsite returns, summary.errors404 holds, in order, exactly
\* one record per checked link whose result is broken with statusCode 404,
\* and nothing for links that are ok, warning, error or timeout.
C1_Errors404ExactlyBroken ==
  spc = "done" =>
    LET broken == SelectSeq(AllChecked(results.pages), Broken404)
    IN /\ Len(results.summary.errors404) = Len(broken)
       /\ \A i \in 1..Len(broken) :
            /\ results.summary.errors404[i].url = broken[i].url
            /\ results.summary.errors404[i].foundOn = broken[i].foundOn

\* a finished scan that found a 404 next to a warning and a timeout
C1_Witness ==
  /\ spc = "done"
  /\ Len(results.summary.errors404) = 1
  /\ \E i \in DOMAIN AllChecked(results.pages) :
       AllChecked(results.pages)[i].status = "warning"
  /\ \E i \in DOMAIN AllChecked(results.pages) :
       AllChecked(results.pages)[i].status = "timeout"

\* the value checkLinksInBatch records for a call of checkSingleLink
RecordedFor(call) ==
  CheckedLinks(<<[item |-> call.link,
                  success |-> call.promise.state = "fulfilled",
                  result |-> call.promise.value]>>)[1]

\* C4: every link check is classified by the policy: response 404 ->
\* broken/404, response >= 400 other than 404 -> warning, response < 400 ->
\* ok, aborted or timed-out connection -> timeout/0, any other failure
\* without an HTTP status -> error/0; exactly one category per link.
C4_ClassificationPolicy ==
  \A n \in DOMAIN checkCalls :
    LET o == checkCalls[n].outcome
        r == RecordedFor(checkCalls[n])
    IN checkCalls[n].promise.state # "pending" =>
       /\ r.status \in Categories
       /\ r.url = checkCalls[n].link.url
       /\ (o.kind = "response" /\ o.status = 404) =>
            (r.status = "broken" /\ r.statusCode = 404)
       /\ (o.kind = "response" /\ o.status >= 400 /\ o.status # 404) =>
            (r.status = "warning" /\ r.statusCode = o.status)
       /\ (o.kind = "response" /\ o.status < 400) =>
            (r.status = "ok" /\ r.statusCode = o.status)
       /\ (o.kind = "failure" /\ o.code \in {"ECONNABORTED", "ETIMEDOUT"}) =>
            (r.status = "timeout" /\ r.statusCode = 0)
       /\ (o.kind \in {"failure", "throw"} /\ o.status = 0
             /\ o.code \notin {"ECONNABORTED", "ETIMEDOUT"}) =>
            (r.status = "error" /\ r.statusCode = 0)

\* a 404 answer classified broken, then an aborted connection classified
\* timeout
C4_Witness ==
  /\ Len(checkCalls) = 2
  /\ checkCalls[1].outcome.kind = "response"
  /\ checkCalls[1].outcome.status = 404
  /\ checkCalls[1].promise.value.status = "broken"
  /\ checkCalls[2].outcome.code = "ECONNABORTED"
  /\ checkCalls[2].promise.value.status = "timeout"

\* the step in which scanSinglePage returns for a page whose fetch failed
PageFailedStep ==
  /\ pageResult' # pageResult
  /\ pageResult' # NoPage
  /\ pageResult'.status # 200

\* the step in which scanWebsite records a page whose fetch failed
PageFailedRecorded ==
  /\ Len(results'.pages) = Len(results.pages) + 1
  /\ results'.pages[Len(results'.pages)].status # 200

\* C5: a page whose fetch answers a non-200 status or fails is recorded with
\* accessible = false and no links, no GET is issued for it, the 404 list
\* and the link total stay as they are, and the scan goes on to the next
\* page (or finishes when it was the last one).
C5_PageFailureNotFatal ==
  [][/\ PageFailedStep =>
          /\ spc = "fetching-page"
          /\ pageResult'.pageUrl = urls[pageIndex]
          /\ ~pageResult'.accessible
          /\ pageResult'.links = <<>>
          /\ pageResult'.checkedLinks = <<>>
          /\ PendingGets' = {}
          /\ results' = results
          /\ stats' = stats
          /\ spc' = "page-returned"
          /\ pageIndex' = pageIndex
     /\ PageFailedRecorded =>
          LET page == results'.pages[Len(results'.pages)]
          IN /\ page = pageResult
             /\ page.pageUrl = urls[pageIndex]
             /\ ~page.accessible
             /\ page.links = <<>>
             /\ page.checkedLinks = <<>>
             /\ PendingGets' = {}
             /\ results'.summary = results.summary
             /\ stats' = stats
             /\ spc' = (IF pageIndex < Len(urls) THEN "page-sleep"
                        ELSE "done")
             /\ pageIndex' = pageIndex]_vars

\* the first page failed and the second one was nevertheless scanned
C5_Witness ==
  /\ Len(results.pages) = 2
  /\ ~results.pages[1].accessible
  /\ results.pages[2].accessible
  /\ results.pages[2].checkedLinks # <<>>

\* the report holds one page result per input URL, in input order
PagesInInputOrder ==
  /\ Len(results.pages) = Len(urls)
  /\ \A i \in 1..Len(urls) : results.pages[i].pageUrl = urls[i]

\* C6: whatever mix of page-fetch and link-check failures occurs, a started
\* scan ends in the done state with one page result per input URL, in
\* input order (every request eventually answers or fails).
C6_ScanTerminates ==
  (trigger = "direct") ~> (spc = "done" /\ PagesInInputOrder)

\* a finished scan of two pages with a failed page and a failed link check
C6_Witness ==
  /\ spc = "done"
  /\ Len(urls) = 2
  /\ PagesInInputOrder
  /\ \E i \in 1..2 : ~results.pages[i].accessible
  /\ \E i \in 1..2, j \in 1..MaxLinks :
       /\ j \in DOMAIN results.pages[i].checkedLinks
       /\ results.pages[i].checkedLinks[j].status \in {"error", "timeout"}

\* C7: never more than maxConcurrent link GETs are outstanding, and no GET
\* of a later batch has been issued while a GET of an earlier batch is
\* still outstanding.
C7_BoundedConcurrency ==
  /\ Cardinality(PendingGets) <= maxConcurrent
  /\ \A i, j \in DOMAIN inflight :
       (BatchOf(i) < BatchOf(j) /\ inflight[j].state # "unstarted") =>
          inflight[i].state # "pending"

\* a second batch is running after a first batch of maxConcurrent links
C7_Witness ==
  /\ maxConcurrent = 2
  /\ Len(linksToCheck) > maxConcurrent
  /\ inflight[1].state = "joined"
  /\ inflight[2].state = "joined"
  /\ inflight[3].state = "pending"

\* the checkable links of a page, in document order
Checkable(links) == SelectSeq(links, LAMBDA l : ~l.hasHash)

\* C8: the i-th element of checkedLinks is the result of the i-th checkable
\* link of the page, whatever order the GETs settle in and whether they
\* fulfil or reject; the same holds of the entries of finished batches.
C8_OrderPreserved ==
  /\ \A p \in DOMAIN results.pages :
       LET page == results.pages[p]
       IN /\ Len(page.checkedLinks) = Len(Checkable(page.links))
          /\ \A i \in DOMAIN page.checkedLinks :
               /\ page.checkedLinks[i].url = Checkable(page.links)[i].url
               /\ page.checkedLinks[i].foundOn = page.pageUrl
  /\ \A i \in DOMAIN pcResults :
       /\ pcResults[i].item = linksToCheck[i]
       /\ pcResults[i].success => pcResults[i].result.url = linksToCheck[i].url

\* a page of two batches whose last check rejected and whose first did not
C8_Witness ==
  \E p \in DOMAIN results.pages :
    /\ maxConcurrent = 2
    /\ Len(results.pages[p].checkedLinks) = 3
    /\ results.pages[p].checkedLinks[1].status = "broken"
    /\ results.pages[p].checkedLinks[2].status = "ok"
    /\ results.pages[p].checkedLinks[3].status = "error"

\* C9: when the fetch of a page starts, every earlier page has been
\* recorded and folded into the report and no link GET is outstanding.
C9_OnePageAtATime ==
  spc = "fetching-page" =>
    /\ PendingGets = {}
    /\ Len(results.pages) = pageIndex - 1
    /\ results.summary.totalLinks = Len(AllChecked(results.pages))

\* the second page is being fetched after a first page with checked links
C9_Witness ==
  /\ spc = "fetching-page"
  /\ pageIndex = 2
  /\ Len(results.pages[1].checkedLinks) >= 2

\* C10 as stated: the counters and the 404 list change only in steps after
\* which no link check of the batch is outstanding.
C10_Original ==
  [][(stats' # stats \/ results'.summary.errors404 # results.summary.errors404)
       => PendingGets' = {}]_vars

\* C10 amended: the 404 list, the link total, linksChecked and pagesScanned
\* change only in steps of the orchestrating flow taken when no GET is
\* outstanding; errors404, errorsOther and timeouts change only in the step
\* in which one link check settles, by one increment in all.
C10_Amended ==
  [][/\ (\/ results'.summary # results.summary
         \/ stats'.linksChecked # stats.linksChecked
         \/ stats'.pagesScanned # stats.pagesScanned)
          => (PendingGets = {} /\ PendingGets' = {})
     /\ (spc = "verifying" /\ spc' = "verifying"
           /\ <<stats'.errors404, stats'.errorsOther, stats'.timeouts>>
              # <<stats.errors404, stats.errorsOther, stats.timeouts>>)
          => /\ Cardinality(PendingGets \ PendingGets') = 1
             /\ stats'.errors404 + stats'.errorsOther + stats'.timeouts
                = stats.errors404 + stats.errorsOther + stats.timeouts + 1]_vars

\* a worker has counted a 404 while another check of its batch is outstanding
C10_Witness ==
  /\ spc = "verifying"
  /\ stats.errors404 = 1
  /\ PendingGets # {}

(* ==================== properties of the handlers ====================== *)

\* C2: a run whose scan completed, with a destination configured and
\* notifications not switched off by the caller, has posted exactly one 404
\* notification when the 404 list is non-empty and none when it is empty.
C2_NotifyOncePerScan ==
  (hpc = "responded" /\ spc = "done" /\ webhook /\ query.notify # "false") =>
     sinkCalls = (IF Len(results.summary.errors404) > 0 THEN 1 ELSE 0)

\* C3: the notify parameter enables notifications: they are on when it is
\* absent or 'true' and off when it is 'false'.
C3_NotifyFlagEnables ==
  trigger = "ondemand" => (notifySlack <=> query.notify # "false")

\* the cron handler has done none of its work
NoPipelineWork ==
  /\ spc = "idle"
  /\ originalUrls = 0
  /\ cleanUrls = <<>>
  /\ sinkCalls = 0
  /\ techCalls = 0
  /\ results.pages = <<>>

\* C11: a call of the scheduled trigger whose Authorization header is not
\* exactly 'Bearer ' followed by the value of CRON_SECRET is answered 401
\* at once: the handler is never seen fetching the sitemap, scanning or
\* notifying.
C11_UnauthorizedRejected ==
  (trigger = "cron" /\ auth.header # "Bearer " \o auth.secret) =>
     /\ hpc = "responded"
     /\ response.code = 401
     /\ ~response.success
     /\ NoPipelineWork

\* a wrong token against a configured secret has been answered 401
C11_Witness ==
  /\ trigger = "cron"
  /\ auth = [header |-> "Bearer wrong", secret |-> "s3cret"]
  /\ hpc = "responded"
  /\ response.code = 401

\* C12: a scan started by the scheduled trigger covers at most 50 pages and
\* verifies links with the worker count of the cron configuration.
C12_CronProfile ==
  (trigger = "cron" /\ spc # "idle") =>
     /\ Len(urls) <= CronMaxPagesLimit
     /\ maxConcurrent = CronMaxConcurrent

\* C13: an authorized call of the scheduled trigger whose sitemap holds at
\* least one URL is answered 200 with success = true.
C13_CronSucceeds ==
  (/\ trigger = "cron"
   /\ auth.header = "Bearer " \o auth.secret
   /\ hpc = "responded"
   /\ originalUrls > 0) =>
     (response.code = 200 /\ response.success)

\* C14: a run that has no URL to scan, because the sitemap lists none or
\* because normalization drops every one, fetches no page and answers with
\* a failure.
C14_NoUrlsIsFatal ==
  (/\ trigger \in {"ondemand", "cron"}
   /\ hpc = "responded"
   /\ response.code # 401
   /\ cleanUrls = <<>>) =>
     (~response.success /\ results.pages = <<>>)

(* ------------------ SitemapFetcher used on its own -------------------- *)

\* depth of the call stack of fetchSitemap the model follows
MaxDepth == 3

\* number of sub-sitemaps a sitemap index lists
MaxSubs == 2

\* the sitemap files of the site
SitemapUrls ==
  {"https://example.com/sitemap.xml", "https://example.com/sitemap-1.xml",
   "https://example.com/sitemap-2.xml"}

\* what a sitemap URL can serve: a urlset with its loc texts, a sitemap
\* index with the locs of its sub-sitemaps, a well-formed document that is
\* neither, or a failure of the GET or of the XML parser
Documents ==
  {[kind |-> "urlset", locs |-> <<"https://example.com/a">>],
   [kind |-> "urlset", locs |-> <<"https://example.com/b", "/relative">>],
   [kind |-> "other", locs |-> <<>>],
   [kind |-> "broken", locs |-> <<>>]}
    \cup {[kind |-> "index", locs |-> subs] :
            subs \in UNION {[1..n -> SitemapUrls] : n \in 1..MaxSubs}}

Webs == [SitemapUrls -> Documents]

\* a call of fetchSitemap(url) awaiting its GET, or in its for loop with
\* the sub-sitemaps still to fetch and the URLs pushed so far
Frame(url) == [url |-> url, state |-> "get", todo |-> <<>>, found |-> <<>>]

\* lines 82-85: the two filters and the trim
ValidUrls(found) ==
  LET kept == FilterSeq(found, {u \in Range(found) : StartsWith(u, "http")})
  IN [i \in DOMAIN kept |-> Trim(kept[i])]

Pop(stack) == SubSeq(stack, 1, Len(stack) - 1)

RECURSIVE Resume(_), Return(_, _)

\* the for loop of the innermost call goes on: it calls fetchSitemap on the
\* next sub-sitemap, whose GET is issued, or ends and the call returns
Resume(stack) ==
  LET top == stack[Len(stack)]
  IN IF top.todo # <<>>
     THEN [stack |-> Append([stack EXCEPT ![Len(stack)].todo = Tail(top.todo)],
                            Frame(Head(top.todo))),
           out |-> NoFetch,
           gets |-> <<Head(top.todo)>>]
     ELSE Return(Pop(stack), ValidUrls(top.found))

\* a call returns value to the callers on stack: the caller of the
\* outermost call, or the loop of an index, which pushes the URLs
Return(stack, value) ==
  IF stack = <<>>
  THEN [stack |-> <<>>, out |-> [state |-> "returned", urls |-> value],
        gets |-> <<>>]
  ELSE Resume([stack EXCEPT ![Len(stack)].found = @ \o value])

\* a failure of a sub-sitemap that is handed on to the caller
Throw_Propagate(stack) ==
  [stack |-> <<>>, out |-> [state |-> "failed", urls |-> <<>>], gets |-> <<>>]

\* a call throws to the callers on stack: the caller of the outermost
\* call, or the catch of line 75 inside the loop of an index
Throw(stack) ==
  IF stack = <<>>
  THEN [stack |-> <<>>, out |-> [state |-> "failed", urls |-> <<>>],
        gets |-> <<>>]
  ELSE Resume(stack)

\* what the innermost call does when its GET and the parser have settled
\* with document doc
AfterGet(stack, doc) ==
  IF doc.kind = "broken" THEN Throw(Pop(stack))
  ELSE IF doc.kind = "urlset" THEN Return(Pop(stack), ValidUrls(doc.locs))
  ELSE IF doc.kind = "index"
  THEN Resume([stack EXCEPT ![Len(stack)].state = "loop",
                            ![Len(stack)].todo = doc.locs])
  ELSE Return(Pop(stack), <<>>)

\* everything but the fetcher's variables and the trigger is left alone
FetcherFrame ==
  UNCHANGED <<web, cleanCalls, processCalls, extractCalls, server, auth,
              checkCalls, webhook, query, method, notifySlack, hpc, originalUrls, cleanUrls,
              sinkCalls, post, techCalls, response, svars>>

\* fetchSitemap(url) is called and issues its GET
CallFetchSitemap(url) ==
  /\ trigger = "none"
  /\ trigger' = "fetch"
  /\ fstack' = <<Frame(url)>>
  /\ fetches' = <<url>>
  /\ UNCHANGED fout
  /\ FetcherFrame

\* the GET of the innermost call settles and the call runs to the next GET
\* or to its end
SitemapGetSettles ==
  /\ trigger = "fetch"
  /\ fstack # <<>>
  /\ LET top == fstack[Len(fstack)]
         next == AfterGet(fstack, web[top.url])
     IN /\ web[top.url].kind = "index" => Len(fstack) < MaxDepth
        /\ fstack' = next.stack
        /\ fout' = next.out
        /\ fetches' = fetches \o next.gets
  /\ UNCHANGED trigger
  /\ FetcherFrame

NextFetch ==
  \/ \E url \in SitemapUrls : CallFetchSitemap(url)
  \/ SitemapGetSettles

\* the site serves any combination of sitemap documents
InitFetch == Idle /\ webhook = FALSE /\ web \in Webs

FetchSpec == InitFetch /\ [][NextFetch]_vars

(* ================= properties of the SitemapCleaner =================== *)

\* C15: cleanSingleUrl applied to its own result returns it unchanged.
C15_CleanIdempotent ==
  \A i, j \in DOMAIN cleanCalls :
     (/\ cleanCalls[i].version = cleanCalls[j].version
      /\ cleanCalls[i].result # Null
      /\ cleanCalls[j].url = cleanCalls[i].result) =>
        cleanCalls[j].result = cleanCalls[j].url

\* the normalized forms of the parseable URLs of a list
NormalizedForms(version, us) ==
  {cleanSingleUrl(version, us[i]) : i \in DOMAIN us} \ {Null}

\* C16: the list process returns is strictly ascending, hence without two
\* equal members, each member is the normalized form of an input URL, and
\* the empty list gives the empty list.
C16_ProcessUniqueSorted ==
  \A c \in DOMAIN processCalls :
     LET call == processCalls[c]
     IN /\ \A i \in 1..(Len(call.result) - 1) :
             StringLess(call.result[i], call.result[i + 1])
        /\ Range(call.result) \subseteq NormalizedForms(call.version, call.urls)
        /\ call.urls = <<>> => call.result = <<>>

\* three entries, one unparseable and two that normalize to the same URL,
\* have given a list of one URL
C16_Witness ==
  \E c \in DOMAIN processCalls :
     /\ processCalls[c].urls = <<"http://", "https://example.com/a?lang=fr",
                                 "https://example.com/a">>
     /\ processCalls[c].result = <<"https://example.com/a">>

\* the pathname of a normalized URL, in lower case, ends in an excluded
\* extension
HasExcludedExtension(url) ==
  LET afterHost == Substring(url, FirstOf(Substring(url, 8), {"/"}) + 7)
      pathname == SubSeq(afterHost, 1, FirstOf(afterHost, {"?", "#"}) - 1)
  IN \E ext \in excludedExtensions : LowerEndsWith(pathname, ext)

\* C17: no member of the list process returns has a path that ends in an
\* excluded extension, whatever language prefix, letter case or query
\* parameters the input carried.
C17_NoExcludedFiles ==
  \A c \in DOMAIN processCalls :
     \A i \in DOMAIN processCalls[c].result :
        ~HasExcludedExtension(processCalls[c].result[i])

\* a document with a language prefix, upper-case extension and a language
\* parameter was in the input and a page came out
C17_Witness ==
  \E c \in DOMAIN processCalls :
     /\ "https://example.com/en/Doc.PDF?lang=en" \in Range(processCalls[c].urls)
     /\ processCalls[c].result = <<"https://example.com/b">>

\* C18: process on the sitemap {https://example.com/a,
\* https://example.com/en/a} returns exactly https://example.com/a.
C18_LocaleExample ==
  \A c \in DOMAIN processCalls :
     Range(processCalls[c].urls)
        = {"https://example.com/a", "https://example.com/en/a"} =>
       processCalls[c].result = <<"https://example.com/a">>

(* ================= properties of the SitemapFetcher =================== *)

\* the sitemap the outermost call was made on
TopSitemap == web[fetches[1]]

RECURSIVE FlatUrls(_)

\* the URLs of the listed sub-sitemaps that answer with a urlset, in order
FlatUrls(subs) ==
  IF subs = <<>> THEN <<>>
  ELSE (IF web[Head(subs)].kind = "urlset"
        THEN ValidUrls(web[Head(subs)].locs) ELSE <<>>)
         \o FlatUrls(Tail(subs))

\* C19: when fetchSitemap has ended, it has failed exactly when the GET or
\* the parse of the top-level sitemap failed; on an index whose
\* sub-sitemaps are plain sitemaps or fail, it has returned the URLs of the
\* sub-sitemaps that did not fail, in order.
C19_SubSitemapFailureSkipped ==
  (trigger = "fetch" /\ fout.state # "none") =>
     /\ fout.state = "failed" <=> TopSitemap.kind = "broken"
     /\ (/\ TopSitemap.kind = "index"
         /\ \A i \in DOMAIN TopSitemap.locs :
               web[TopSitemap.locs[i]].kind # "index") =>
           (fout.state = "returned" /\ fout.urls = FlatUrls(TopSitemap.locs))

\* an index whose first sub-sitemap fails and whose second lists a page has
\* returned that page
C19_Witness ==
  /\ trigger = "fetch"
  /\ TopSitemap.kind = "index"
  /\ Len(TopSitemap.locs) = 2
  /\ web[TopSitemap.locs[1]].kind = "broken"
  /\ web[TopSitemap.locs[2]].kind = "urlset"
  /\ fout = [state |-> "returned", urls |-> <<"https://example.com/a">>]

\* C20: the recursion of fetchSitemap is guarded: no call is made on a
\* sitemap URL while a call on the same URL is still in progress, so that
\* the depth of the recursion stays within the number of sitemap files.
C20_RecursionGuarded ==
  \A i, j \in DOMAIN fstack :
     i # j => fstack[i].url # fstack[j].url

(* ================= properties of the pauses and the GETs ============== *)

\* n / c rounded up
Ceil(n, c) == (n + c - 1) \div c

\* C25: the pauses lie exactly between consecutive units of work.  A
\* processConcurrent call on n links with limit c has made one pause less
\* than it has launched batches, or as many while it is pausing, and has
\* launched ceil(n/c) batches when it returns; scanWebsite has made one
\* pause less than it has started pages, or as many while it is pausing,
\* which gives max(p - 1, 0) pauses for p pages at its end; and no GET is
\* outstanding during a pause.
C25_PausesBetweenUnits ==
  /\ \A k \in DOMAIN pcLog :
       LET call == pcLog[k]
           n == Len(call.items)
           pausing == k = Len(pcLog) /\ spc = "batch-sleep"
       IN /\ n > 0
          /\ call.sleeps = call.batches - (IF pausing THEN 0 ELSE 1)
          /\ call.batches <= Ceil(n, call.concurrency)
          /\ call.returned => call.batches = Ceil(n, call.concurrency)
  /\ pageIndex >= 1 =>
       pageSleeps = pageIndex - (IF spc = "page-sleep" THEN 0 ELSE 1)
  /\ spc = "done" =>
       pageSleeps = (IF Len(urls) = 0 THEN 0 ELSE Len(urls) - 1)
  /\ spc \in {"batch-sleep", "page-sleep"} => PendingGets = {}

\* a scan of two pages has ended after one pause between them, and one of
\* its pages had its links verified in two batches with one pause
C25_Witness ==
  /\ spc = "done"
  /\ Len(urls) = 2
  /\ pageSleeps = 1
  /\ \E k \in DOMAIN pcLog :
       /\ pcLog[k].returned
       /\ pcLog[k].batches = 2
       /\ pcLog[k].sleeps = 1
       /\ Len(pcLog[k].items) > pcLog[k].concurrency

\* how many of the GETs of the call went to the given link
GetsOf(call, link) ==
  Cardinality({g \in DOMAIN call.gets : call.gets[g] = link})

\* the page of the call is in the report
Recorded(call) == call.page \in DOMAIN results.pages

\* the links found on the page of a call that has returned: in the page of
\* the report, in the page scanSinglePage has returned, or in its locals
LinksOfPage(call) ==
  IF Recorded(call) THEN results.pages[call.page].links
  ELSE IF spc = "page-returned" THEN pageResult.links
  ELSE pageLinks

\* the results of a call that has returned: in the page of the report, in
\* the page scanSinglePage has returned, in the list checkLinksInBatch has
\* returned, or in the entries processConcurrent has returned
ResultsOfPage(call) ==
  IF Recorded(call) THEN results.pages[call.page].checkedLinks
  ELSE IF spc = "page-returned" THEN pageResult.checkedLinks
  ELSE IF spc = "links-checked" THEN checkedLinks
  ELSE CheckedLinks(pcResults)

\* C26: within one scan each link of the checkable subset of a page has
\* at most one verification GET issued, exactly one once the links of the
\* page are verified, and then the page holds exactly one result for each
\* checkable link, whatever the outcome of its GET.
C26_OneGetPerLink ==
  \A k \in DOMAIN pcLog :
    LET call == pcLog[k]
    IN /\ \A m \in DOMAIN call.items : GetsOf(call, call.items[m]) <= 1
       /\ call.returned =>
            /\ \A m \in DOMAIN call.items : GetsOf(call, call.items[m]) = 1
            /\ Len(call.gets) = Len(call.items)
            /\ call.items = Checkable(LinksOfPage(call))
            /\ Len(ResultsOfPage(call)) = Len(call.items)
            /\ \A m \in DOMAIN call.items :
                 ResultsOfPage(call)[m].url = call.items[m].url
       /\ spc = "done" => call.returned /\ Recorded(call)

\* the links of a page were verified in two batches, and one GET timed
\* out, one found a 404 and one did not answer
C26_Witness ==
  \E k \in DOMAIN pcLog :
    /\ pcLog[k].returned
    /\ Recorded(pcLog[k])
    /\ pcLog[k].batches = 2
    /\ \E a, b, c \in DOMAIN results.pages[pcLog[k].page].checkedLinks :
         LET checked == results.pages[pcLog[k].page].checkedLinks
         IN /\ checked[a].status = "timeout"
            /\ checked[b].status = "broken"
            /\ checked[c].status = "error"

(* ====================== properties of the counters ==================== *)

\* how many checked links of the scan have the given status
CountStatus(pages, status) ==
  Cardinality({k \in DOMAIN AllChecked(pages) :
                 AllChecked(pages)[k].status = status})

\* the counters a scan returns agree with the pages and the summary it
\* returns
CountersAgree(res) ==
  /\ res.stats.errors404 = Len(res.summary.errors404)
  /\ res.stats.timeouts = CountStatus(res.pages, "timeout")
  /\ res.stats.linksChecked = res.summary.totalLinks
  /\ res.summary.totalLinks = Len(AllChecked(res.pages))

\* C28: at the end of every scan, a second scan on the same LinkChecker
\* included, the counters agree with the recorded results: errors404 is
\* the length of the 404 list, timeouts is the number of checked links
\* with status timeout, linksChecked is totalLinks and the number of
\* checked links of all pages, and the returned stats are the counters of
\* the LinkChecker, so that nothing of an earlier scan is carried over.
C28_CountersAgree ==
  spc = "done" =>
    /\ CountersAgree(results)
    /\ results.stats = stats

\* a second scan on the LinkChecker has ended with a 404, a timeout and a
\* third checked link
C28_Witness ==
  /\ spc = "done"
  /\ scans = 2
  /\ stats.errors404 = 1
  /\ stats.timeouts = 1
  /\ stats.linksChecked = 3

\* the scans that share a LinkChecker with an overlapping call or with a
\* resetStats call: the counters each of them returns agree with its
\* results
SharedCountersAgree ==
  /\ spc = "done" => CountersAgree(results)
  /\ overlap.spc = "done" => CountersAgree(overlap.results)

(* ====================== properties of the page cap ==================== *)

\* the cap each value of the maxPages parameter stands for, 0 for no cap
\* and -1 for the negative number, of which the claim does not speak
CapOf(param) ==
  CASE param \in {"1", "0x1"} -> 1
    [] param = "3" -> 3
    [] param = "-1" -> -1
    [] OTHER -> 0

\* C29: in the on-demand handler the scan covers the first min(m, n) URLs
\* of the sorted normalized list of n URLs when the cap m is positive, and
\* all n URLs when the cap is absent, 0 or not a number.
C29_PageCap ==
  (trigger = "ondemand" /\ spc # "idle" /\ CapOf(query.maxPages) >= 0) =>
     /\ \A i, j \in DOMAIN cleanUrls :
          i < j => StringLess(cleanUrls[i], cleanUrls[j])
     /\ urls = PageNumbers(
                 IF CapOf(query.maxPages) > 0
                 THEN SubSeq(cleanUrls, 1,
                             Min(CapOf(query.maxPages), Len(cleanUrls)))
                 ELSE cleanUrls)

\* an on-demand scan with cap 1 on a list of two URLs has covered the
\* first one only
C29_Witness ==
  /\ trigger = "ondemand"
  /\ query.maxPages = "1"
  /\ Len(cleanUrls) = 2
  /\ spc = "done"
  /\ Len(results.pages) = 1
  /\ SiteUrl(results.pages[1].pageUrl) = cleanUrls[1]

(* ==================== properties of the notifications ================= *)

\* C23: a failure while sending the 404 notification to the sink is caught
\* and does not change the outcome of the run: the caller receives the
\* scan report with status 200, success = true and the full 404 list of
\* the scan, with the notification marked as not sent, and the failure
\* causes neither a technical-error notification nor a second post.
C23_NotificationFailureHarmless ==
  post = "failed" =>
     /\ hpc = "responded"
     /\ spc = "done"
     /\ response.code = 200
     /\ response.success
     /\ response.errors404 = results.summary.errors404
     /\ response.errors404 # <<>>
     /\ ~response.sent
     /\ techCalls = 0
     /\ sinkCalls = 1

\* an on-demand run that found two 404 errors has been answered after the
\* POST of its notification failed
C23_Witness ==
  /\ trigger = "ondemand"
  /\ post = "failed"
  /\ hpc = "responded"
  /\ Len(results.summary.errors404) = 2
  /\ response.errors404 = results.summary.errors404

\* C24: a run that fails on an empty or unreachable sitemap while a
\* notification destination is configured posts a technical-error
\* notification and answers with a failure.
C24_TechnicalErrorNotified ==
  (/\ trigger \in {"ondemand", "cron"}
   /\ hpc = "responded"
   /\ response.code = 500
   /\ spc = "idle"
   /\ webhook) =>
     (techCalls = 1 /\ ~response.success)

(* ================= properties of the local server =================== *)

\* a scan served by the local server has completed and been answered
ServedScanCompleted ==
  /\ server.registration # "none"
  /\ hpc = "responded"
  /\ spc = "done"
  /\ response.success

\* C27: once a scan served through /api/check-links of the local server
\* has completed, lastScanResult holds the response of that scan, and a
\* GET / arriving from then on sends the summary of the last scan, not the
\* 'no scan yet' message.
C27_LastScanResultShown ==
  [][ServedScanCompleted =>
        /\ server.lastScanResult = response
        /\ server'.home # server.home => server'.home = "summary"]_vars

\* C30: when CRON_SECRET is not set, a cron request whose Authorization
\* header is 'Bearer undefined' is not answered 401 and goes on into the
\* pipeline, and a request without Authorization header is answered 401
\* with no work done.
C30_BearerUndefinedAccepted ==
  (trigger = "cron" /\ auth.secret = "undefined") =>
     /\ auth.header = "Bearer undefined" =>
          /\ response.code # 401
          /\ hpc \in {"fetch-sitemap", "scanning", "responded"}
          /\ hpc = "responded" => originalUrls = 0 \/ spc = "done"
     /\ auth.header = "undefined" =>
          /\ hpc = "responded"
          /\ response.code = 401
          /\ NoPipelineWork

\* without a secret, a request with 'Bearer undefined' has had its sitemap
\* fetched and cleaned and a page with links scanned
C30_Witness ==
  /\ trigger = "cron"
  /\ auth = [header |-> "Bearer undefined", secret |-> "undefined"]
  /\ originalUrls > 0
  /\ spc = "done"
  /\ stats.pagesScanned > 0
  /\ stats.linksChecked > 0

(* ================= properties of the link extraction ================= *)

\* how many links of seq have the given target
Occurrences(seq, url) == Cardinality({i \in DOMAIN seq : seq[i].url = url})

\* position of the first link of seq with the given target
FirstIndex(seq, url) ==
  CHOOSE i \in DOMAIN seq :
    seq[i].url = url /\ \A j \in 1..(i - 1) : seq[j].url # url

\* C21: within one page a target that occurs n >= 2 times among the
\* resolved links yields exactly one extracted link, the first occurrence
\* in document order, with duplicateCount = n, and the extracted links
\* keep the order of the first occurrences of their targets.
C21_LinksDeduplicated ==
  \A i \in DOMAIN extractCalls :
    LET raw == extractCalls[i].raw
        links == extractCalls[i].links
    IN /\ \A k \in DOMAIN raw :
            Occurrences(raw, raw[k].url) >= 2 =>
              /\ Occurrences(links, raw[k].url) = 1
              /\ links[FirstIndex(links, raw[k].url)]
                   = [raw[FirstIndex(raw, raw[k].url)] EXCEPT
                        !.duplicateCount = Occurrences(raw, raw[k].url)]
       /\ \A k, m \in DOMAIN links :
            k < m => FirstIndex(raw, links[k].url)
                       < FirstIndex(raw, links[m].url)

\* a page where two differently written hrefs resolve to one target, after
\* a link to another target
C21_Witness ==
  \E i \in DOMAIN extractCalls :
    LET raw == extractCalls[i].raw
    IN /\ Len(raw) = 3
       /\ raw[2].url = raw[3].url
       /\ raw[2].originalHref # raw[3].originalHref
       /\ raw[1].url # raw[2].url
       /\ Len(extractCalls[i].links) = 2

\* the target without its fragment
WithoutFragment(url) == SubSeq(url, 1, FirstOf(url, {"#"}) - 1)

\* C22: every extracted link with an absolute http or https target is in
\* the checkable subset unless it is an anchor into the page it was found
\* on; a link to another page that carries a fragment is verified.
C22_FragmentLinksChecked ==
  \A i \in DOMAIN extractCalls :
    \A k \in DOMAIN extractCalls[i].links :
      LET link == extractCalls[i].links[k]
      IN (/\ SchemeOf(link.url) # ""
          /\ ~StartsWith(link.originalHref, "#")
          /\ WithoutFragment(link.url) # link.foundOn)
           => \E m \in DOMAIN extractCalls[i].linksToCheck :
                 extractCalls[i].linksToCheck[m].url = link.url

====
